---- MODULE Spec2Model ----
(***************************************************************************)
(* Model of system_monitor_dashboard/monitor.py: the counter readers, the    *)
(* remote bridge (ssh_remote_raw), the metrics engine (cpu_usage,           *)
(* compute_metrics), the formatters and the render loop (dashboard); and of *)
(* the news scheduler of world_status_dashboard/dashboard.py (schedule_due, *)
(* get_news and its loop).                                                  *)
(*                                                                          *)
(* Conventions.  A Python dict is a function whose DOMAIN is its key set    *)
(* ({} is the function with the empty domain, <<>>); a list or tuple is a   *)
(* sequence; str is a TLA+ string.  Values json.loads or a (value, error)   *)
(* pair can hold are tagged records [t |-> "none"], [t |-> "str", v |-> s], *)
(* [t |-> "dict", v |-> d], [t |-> "list", v |-> s].  Floats are exact      *)
(* rationals [n |-> numerator, d |-> denominator] with d > 0, or d = 0 for  *)
(* the value a ZeroDivisionError would stand for.  Wall-clock time is in    *)
(* milliseconds, so the 0.001 s clamp of compute_metrics is 1.              *)
(***************************************************************************)
EXTENDS Integers, Sequences, FiniteSets, TLC

\* ---------------------------------------------------------------- helpers

Max(a, b) == IF a >= b THEN a ELSE b

Min(a, b) == IF a <= b THEN a ELSE b

\* dict.get(key, default)
Get(d, key, default) == IF key \in DOMAIN d THEN d[key] ELSE default

\* bool(x) of a dict, list or tuple: non-empty
Truthy(x) == DOMAIN x # {}

Abs(a) == IF a < 0 THEN -a ELSE a

RECURSIVE GCD(_, _)
GCD(a, b) == IF b = 0 THEN a ELSE GCD(b, a % b)

\* the rational n/d in lowest terms (left as it is when d = 0 or n = 0)
Rat(n, d) ==
    IF d <= 0 \/ n = 0 THEN [n |-> n, d |-> d]
    ELSE [n |-> n \div GCD(Abs(n), d), d |-> d \div GCD(Abs(n), d)]

Zero == Rat(0, 1)

\* equality of two rationals with positive denominators
RatEq(a, b) == a.n * b.d = b.n * a.d

RECURSIVE SumSeq(_)
\* sum(list)
SumSeq(s) == IF Len(s) = 0 THEN 0 ELSE Head(s) + SumSeq(Tail(s))

PyNone == [t |-> "none"]

PyStr(s) == [t |-> "str", v |-> s]

PyDict(d) == [t |-> "dict", v |-> d]

PyList(s) == [t |-> "list", v |-> s]

\* bool(x) of a tagged value
TruthyVal(x) ==
    CASE x.t = "none" -> FALSE
      [] x.t = "str"  -> x.v # ""
      [] x.t = "dict" -> Truthy(x.v)
      [] x.t = "list" -> Truthy(x.v)

\* ------------------------------------------------------------ cpu_usage

\* cpu_usage with the iowait counter left out of the idle time
cpu_usage_idle_only(prev, curr) ==
    LET total_delta == SumSeq(curr) - SumSeq(prev)
        idle_delta  == curr[4] - prev[4]
    IN  IF total_delta <= 0
        THEN Zero
        ELSE Rat((total_delta - idle_delta) * 100, total_delta)

\* Python index i of a list is element i + 1 of the sequence.
cpu_usage(prev, curr) ==
    LET prev_idle   == prev[4] + prev[5]
        curr_idle   == curr[4] + curr[5]
        prev_total  == SumSeq(prev)
        curr_total  == SumSeq(curr)
        total_delta == curr_total - prev_total
        idle_delta  == curr_idle - prev_idle
    IN  IF total_delta <= 0
        THEN Zero
        ELSE Rat((total_delta - idle_delta) * 100, total_delta)

\* ------------------------------------------------------- compute_metrics

\* max(now - prev.get("time", now), 0.001), in milliseconds
MinElapsed == 1

\* bytes per sector, the 512.0 of the disk rates
SectorSize == 512

\* milliseconds per second: a rate per second is (delta * 1000) / elapsed ms
MsPerSec == 1000

\* What shutil.disk_usage(mount) answers on the local host: <<total, used>>
\* for a mount it can stat; a mount outside the domain raises OSError.
FsUsage ==
    [m \in {"/", "/boot", "/home", "/srv", "/var"} |->
        IF m = "/" THEN <<4096000, 1024000>> ELSE <<2048000, 512000>>]

\* the local disk-usage pass of compute_metrics: mounts that raise OSError
\* are skipped
RECURSIVE disk_usage_for_mounts(_)
disk_usage_for_mounts(mounts) ==
    IF Len(mounts) = 0 THEN <<>>
    ELSE LET m == Head(mounts)
             rest == disk_usage_for_mounts(Tail(mounts))
         IN  IF m[1] \in DOMAIN FsUsage
             THEN << <<m[1], m[2], FsUsage[m[1]][1], FsUsage[m[1]][2]>> >> \o rest
             ELSE rest

\* the elapsed time clamped to a whole second instead of 0.001 s
elapsed_clamped_to_second(prev, now) ==
    Max(now - Get(prev, "time", now), MsPerSec)

elapsed(prev, now) == Max(now - Get(prev, "time", now), MinElapsed)

\* metrics_cpu_pcts leaving the cpu lines out when there is no previous sample
metrics_cpu_pcts_omitting(raw, prev) ==
    LET cpu_lines == Get(raw, "cpu_lines", <<>>)
    IN  IF Truthy(prev) /\ Truthy(Get(prev, "cpu_lines", <<>>))
        THEN [i \in 1..Min(Len(cpu_lines), Len(prev["cpu_lines"])) |->
                 <<cpu_lines[i][1],
                   cpu_usage(prev["cpu_lines"][i][2], cpu_lines[i][2])>>]
        ELSE <<>>

metrics_cpu_pcts(raw, prev) ==
    LET cpu_lines == Get(raw, "cpu_lines", <<>>)
    IN  IF Truthy(prev) /\ Truthy(Get(prev, "cpu_lines", <<>>))
        THEN [i \in 1..Min(Len(cpu_lines), Len(prev["cpu_lines"])) |->
                 <<cpu_lines[i][1],
                   cpu_usage(prev["cpu_lines"][i][2], cpu_lines[i][2])>>]
        ELSE [i \in 1..Len(cpu_lines) |-> <<cpu_lines[i][1], Zero>>]

metrics_net_rates(raw, prev, now) ==
    LET net == Get(raw, "net_bytes", <<>>)
    IN  IF Truthy(prev) /\ Truthy(Get(prev, "net_bytes", <<>>))
        THEN LET delta == elapsed(prev, now)
             IN  [iface \in DOMAIN net |->
                     LET rx == net[iface][1]
                         tx == net[iface][2]
                         p  == Get(prev["net_bytes"], iface, <<rx, tx>>)
                     IN  <<Rat((rx - p[1]) * MsPerSec, delta),
                           Rat((tx - p[2]) * MsPerSec, delta)>>]
        ELSE <<>>

\* metrics_disk_rates with a missing previous value taken as zero
metrics_disk_rates_from_zero(raw, prev, now) ==
    LET disk == Get(raw, "diskstats", <<>>)
    IN  IF Truthy(prev) /\ Truthy(Get(prev, "diskstats", <<>>))
        THEN LET delta == elapsed(prev, now)
             IN  [dev \in DOMAIN disk |->
                     LET rsec == disk[dev][1]
                         wsec == disk[dev][2]
                         p    == Get(prev["diskstats"], dev, <<0, 0>>)
                     IN  <<Rat((rsec - p[1]) * SectorSize * MsPerSec, delta),
                           Rat((wsec - p[2]) * SectorSize * MsPerSec, delta)>>]
        ELSE <<>>

metrics_disk_rates(raw, prev, now) ==
    LET disk == Get(raw, "diskstats", <<>>)
    IN  IF Truthy(prev) /\ Truthy(Get(prev, "diskstats", <<>>))
        THEN LET delta == elapsed(prev, now)
             IN  [dev \in DOMAIN disk |->
                     LET rsec == disk[dev][1]
                         wsec == disk[dev][2]
                         p    == Get(prev["diskstats"], dev, <<rsec, wsec>>)
                     IN  <<Rat((rsec - p[1]) * SectorSize * MsPerSec, delta),
                           Rat((wsec - p[2]) * SectorSize * MsPerSec, delta)>>]
        ELSE <<>>

\* compute_metrics taking the free-memory field for the available memory and
\* passing on the differences as they are
compute_metrics_free_unclamped(raw, prev, now) ==
    LET meminfo    == Get(raw, "meminfo", <<>>)
        mem_total  == Get(meminfo, "MemTotal", 0) * 1024
        mem_avail  == Get(meminfo, "MemFree", 0) * 1024
        swap_total == Get(meminfo, "SwapTotal", 0) * 1024
        swap_free  == Get(meminfo, "SwapFree", 0) * 1024
    IN  [cpu_pcts   |-> metrics_cpu_pcts(raw, prev),
         mem_total  |-> mem_total,
         mem_used   |-> mem_total - mem_avail,
         swap_total |-> swap_total,
         swap_used  |-> swap_total - swap_free,
         loadavg    |-> Get(raw, "loadavg", <<"0.00", "0.00", "0.00">>),
         uptime     |-> Get(raw, "uptime", 0),
         temps      |-> Get(raw, "temps", <<>>),
         net_rates  |-> metrics_net_rates(raw, prev, now),
         disk_rates |-> metrics_disk_rates(raw, prev, now),
         disk_usage |-> IF "disk_usage" \in DOMAIN raw
                        THEN Get(raw, "disk_usage", <<>>)
                        ELSE disk_usage_for_mounts(Get(raw, "mounts", <<>>)),
         top_cpu    |-> Get(raw, "top_cpu", <<>>),
         top_mem    |-> Get(raw, "top_mem", <<>>)]

\* compute_metrics copying the fields of the snapshot that are there and
\* leaving out those that are not
compute_metrics_copying(raw, prev, now) ==
    LET meminfo    == Get(raw, "meminfo", <<>>)
        mem_total  == Get(meminfo, "MemTotal", 0) * 1024
        mem_avail  == Get(meminfo, "MemAvailable", Get(meminfo, "MemFree", 0)) * 1024
        swap_total == Get(meminfo, "SwapTotal", 0) * 1024
        swap_free  == Get(meminfo, "SwapFree", 0) * 1024
        copied     == {"loadavg", "uptime", "temps", "disk_usage", "top_cpu", "top_mem"}
    IN  [k \in copied \cap DOMAIN raw |-> raw[k]]
        @@ [cpu_pcts   |-> metrics_cpu_pcts(raw, prev),
            mem_total  |-> mem_total,
            mem_used   |-> Max(mem_total - mem_avail, 0),
            swap_total |-> swap_total,
            swap_used  |-> Max(swap_total - swap_free, 0),
            net_rates  |-> metrics_net_rates(raw, prev, now),
            disk_rates |-> metrics_disk_rates(raw, prev, now)]

compute_metrics(raw, prev, now) ==
    LET meminfo    == Get(raw, "meminfo", <<>>)
        mem_total  == Get(meminfo, "MemTotal", 0) * 1024
        mem_avail  == Get(meminfo, "MemAvailable", Get(meminfo, "MemFree", 0)) * 1024
        swap_total == Get(meminfo, "SwapTotal", 0) * 1024
        swap_free  == Get(meminfo, "SwapFree", 0) * 1024
    IN  [cpu_pcts   |-> metrics_cpu_pcts(raw, prev),
         mem_total  |-> mem_total,
         mem_used   |-> Max(mem_total - mem_avail, 0),
         swap_total |-> swap_total,
         swap_used  |-> Max(swap_total - swap_free, 0),
         loadavg    |-> Get(raw, "loadavg", <<"0.00", "0.00", "0.00">>),
         uptime     |-> Get(raw, "uptime", 0),
         temps      |-> Get(raw, "temps", <<>>),
         net_rates  |-> metrics_net_rates(raw, prev, now),
         disk_rates |-> metrics_disk_rates(raw, prev, now),
         disk_usage |-> IF "disk_usage" \in DOMAIN raw
                        THEN Get(raw, "disk_usage", <<>>)
                        ELSE disk_usage_for_mounts(Get(raw, "mounts", <<>>)),
         top_cpu    |-> Get(raw, "top_cpu", <<>>),
         top_mem    |-> Get(raw, "top_mem", <<>>)]

\* the PreviousState the render loop stores after a sample
previous_state(raw, now) ==
    [cpu_lines |-> Get(raw, "cpu_lines", <<>>),
     net_bytes |-> Get(raw, "net_bytes", <<>>),
     diskstats |-> Get(raw, "diskstats", <<>>),
     time      |-> now]

\* -------------------------------------------------------- ssh_remote_raw

Whitespace == {" ", "\t", "\n", "\r"}

RECURSIVE lstrip(_)
lstrip(s) ==
    IF Len(s) > 0 /\ SubSeq(s, 1, 1) \in Whitespace
    THEN lstrip(SubSeq(s, 2, Len(s)))
    ELSE s

RECURSIVE rstrip(_)
rstrip(s) ==
    IF Len(s) > 0 /\ SubSeq(s, Len(s), Len(s)) \in Whitespace
    THEN rstrip(SubSeq(s, 1, Len(s) - 1))
    ELSE s

\* str.strip()
strip(s) == rstrip(lstrip(s))

\* Samples of one host's kernel counters, as the sampler returns them.
\* Sample 2 follows sample 1 (aggregate cpu: total +200, idle+iowait +150;
\* eth0 and sda have appeared); sample 3 is taken after a reboot (counters
\* restarted, cpu0 offline, no MemAvailable field, sdb appeared); sample 4 is
\* a larger host, with more cores, sensors, interfaces, disks, mounts and
\* process rows than a panel shows.
HostSample(i) ==
    CASE i = 1 ->
           [cpu_lines |-> << <<"cpu",  <<100, 0, 50, 800, 50, 0, 0, 0, 0, 0>> >>,
                             <<"cpu0", <<50, 0, 25, 400, 25, 0, 0, 0, 0, 0>> >> >>,
            meminfo   |-> [MemTotal |-> 1000, MemFree |-> 200, MemAvailable |-> 400,
                           SwapTotal |-> 100, SwapFree |-> 100],
            loadavg   |-> <<"0.10", "0.20", "0.30">>,
            uptime    |-> 366100,
            net_bytes |-> [k \in {"lo"} |-> <<100, 100>>],
            diskstats |-> <<>>,
            mounts    |-> << <<"/", "ext4">> >>,
            temps     |-> <<45000>>,
            top_cpu   |-> << <<"1", "systemd", "0.5", "0.1">> >>,
            top_mem   |-> << <<"42", "python3-with-long-name", "0.0", "12.5">> >>]
      [] i = 2 ->
           [cpu_lines |-> << <<"cpu",  <<140, 0, 60, 900, 100, 0, 0, 0, 0, 0>> >>,
                             <<"cpu0", <<90, 0, 35, 420, 55, 0, 0, 0, 0, 0>> >> >>,
            meminfo   |-> [MemTotal |-> 1000, MemFree |-> 100, MemAvailable |-> 1200,
                           SwapTotal |-> 100, SwapFree |-> 40],
            loadavg   |-> <<"1.10", "0.20", "0.30">>,
            uptime    |-> 366150,
            net_bytes |-> [k \in {"lo", "eth0"} |->
                              IF k = "lo" THEN <<300, 300>> ELSE <<5000, 7000>>],
            diskstats |-> [k \in {"sda"} |-> <<10, 20>>],
            mounts    |-> << <<"/", "ext4">>, <<"/mnt/usb", "vfat">> >>,
            temps     |-> <<45000, 51500>>,
            top_cpu   |-> << <<"1", "systemd", "0.5", "0.1">> >>,
            top_mem   |-> << >>]
      [] i = 3 ->
           [cpu_lines |-> << <<"cpu",  <<10, 0, 5, 80, 5, 0, 0, 0, 0, 0>> >>,
                             <<"cpu1", <<5, 0, 5, 40, 0, 0, 0, 0, 0, 0>> >>,
                             <<"cpu2", <<5, 0, 0, 40, 5, 0, 0, 0, 0, 0>> >> >>,
            meminfo   |-> [MemTotal |-> 1000, MemFree |-> 300,
                           SwapTotal |-> 0, SwapFree |-> 0],
            loadavg   |-> <<"0.00", "0.01", "0.05">>,
            uptime    |-> 9000000,
            net_bytes |-> [k \in {"lo", "eth0"} |->
                              IF k = "lo" THEN <<0, 0>> ELSE <<10, 20>>],
            diskstats |-> [k \in {"sda", "sdb"} |->
                              IF k = "sda" THEN <<2, 4>> ELSE <<0, 8>>],
            mounts    |-> << <<"/", "ext4">> >>,
            temps     |-> << >>,
            top_cpu   |-> << >>,
            top_mem   |-> << >>]
      [] i = 4 ->
           [cpu_lines |-> [c \in 1..10 |->
                              IF c = 1
                              THEN <<"cpu", <<90, 0, 45, 720, 45, 0, 0, 0, 0, 0>> >>
                              ELSE <<"cpu" \o ToString(c - 2),
                                     <<10, 0, 5, 80, 5, 0, 0, 0, 0, 0>> >>],
            meminfo   |-> [MemTotal |-> 4000, MemFree |-> 1000, MemAvailable |-> 3000,
                           SwapTotal |-> 200, SwapFree |-> 150],
            loadavg   |-> <<"2.00", "1.50", "1.00">>,
            uptime    |-> 12345600,
            net_bytes |-> [k \in {"eth0", "eth1", "lo", "usb0", "wlan0", "wlan1"} |->
                              <<1000, 2000>>],
            diskstats |-> [k \in {"mmcblk0", "nvme0n1", "sda", "sdb", "sdc"} |->
                              <<100, 200>>],
            mounts    |-> << <<"/", "ext4">>, <<"/boot", "vfat">>, <<"/home", "ext4">>,
                             <<"/srv", "xfs">>, <<"/var", "ext4">> >>,
            temps     |-> <<41000, 42500, 43000, 60000>>,
            top_cpu   |-> [r \in 1..5 |->
                              <<ToString(100 + r), "worker", "9.5", "1.0">>],
            top_mem   |-> [r \in 1..5 |->
                              <<ToString(200 + r), "database", "1.0", "7.5">>]]

\* the samples the hosts of the render loop show
Samples == {1, 2, 3}

\* the document the remote routine prints for sample i: the sample plus the
\* inline disk-usage pass
RemoteDoc(i) ==
    HostSample(i) @@
    [k \in {"disk_usage"} |-> << <<"/", "ext4", 8192000, 4096000>> >>]

\* stdout texts that json.loads accepts, with the document each parses to;
\* "<sample i>" stands for the JSON text of RemoteDoc(i)
JsonDocs ==
    [txt \in {"null", "{}", "[1]", "{\"uptime\": 12.5}",
              "<sample 1>", "<sample 2>", "<sample 3>"} |->
        CASE txt = "null" -> PyNone
          [] txt = "{}" -> PyDict(<<>>)
          [] txt = "[1]" -> PyList(<<1>>)
          [] txt = "{\"uptime\": 12.5}" -> PyDict([k \in {"uptime"} |-> 1250])
          [] txt = "<sample 1>" -> PyDict(RemoteDoc(1))
          [] txt = "<sample 2>" -> PyDict(RemoteDoc(2))
          [] txt = "<sample 3>" -> PyDict(RemoteDoc(3))]

\* json.loads(text): the parsed document, or a JSONDecodeError
json_loads(txt) ==
    IF txt \in DOMAIN JsonDocs
    THEN [ok |-> TRUE, doc |-> JsonDocs[txt]]
    ELSE [ok |-> FALSE, doc |-> PyNone]

\* What subprocess.run can do: raise OSError (no ssh binary to execute),
\* raise TimeoutExpired after 3 s, or complete with exit code and output.
Completed(rc, out, err) ==
    [kind |-> "completed", returncode |-> rc, stdout |-> out, stderr |-> err]

RunOutcomes ==
    { [kind |-> "oserror"], [kind |-> "timeout"] }
    \cup { Completed(255, "", e) : e \in {"", " \n", "ssh: connect refused\n"} }
    \cup { Completed(1, "<sample 1>", "Traceback\n") }
    \cup { Completed(0, o, "") :
             o \in {"", "Linux banner", "null", "{}", "[1]", "{\"uptime\": 12.5}",
                    "<sample 1>", "<sample 2>", "<sample 3>"} }
    \cup { Completed(0, "<sample 2>", "warning: known hosts\n") }

\* ssh_remote_raw: [raised, data, err]; raised means an exception left the
\* function (only TimeoutExpired and JSONDecodeError are caught)
ssh_remote_raw(run) ==
    IF run.kind = "oserror"
    THEN [raised |-> TRUE, data |-> PyNone, err |-> PyNone]
    ELSE IF run.kind = "timeout"
    THEN [raised |-> FALSE, data |-> PyNone, err |-> PyStr("ssh timeout")]
    ELSE IF run.returncode # 0
    THEN [raised |-> FALSE, data |-> PyNone,
          err |-> PyStr(IF strip(run.stderr) # "" THEN strip(run.stderr)
                        ELSE "ssh failed")]
    ELSE IF ~json_loads(run.stdout).ok
    THEN [raised |-> FALSE, data |-> PyNone, err |-> PyStr("invalid remote data")]
    ELSE [raised |-> FALSE, data |-> json_loads(run.stdout).doc, err |-> PyNone]

\* ------------------------------------------------------------ formatting

RECURSIVE Repeat(_, _)
\* ch * n (the empty string when n <= 0)
Repeat(ch, n) == IF n <= 0 THEN "" ELSE ch \o Repeat(ch, n - 1)

\* text[:n], with Python's meaning of a negative bound
SliceTo(text, n) ==
    IF n >= 0 THEN SubSeq(text, 1, Min(n, Len(text)))
    ELSE SubSeq(text, 1, Max(Len(text) + n, 0))

\* list[:n] of a sequence
Take(seq, n) ==
    IF n >= 0 THEN SubSeq(seq, 1, Min(n, Len(seq)))
    ELSE SubSeq(seq, 1, Max(Len(seq) + n, 0))

\* format spec "Ns" / "<N": left-justified in at least n columns
PadRight(text, n) == text \o Repeat(" ", n - Len(text))

\* format spec ">N" and the default for numbers: right-justified
PadLeft(text, n) == Repeat(" ", n - Len(text)) \o text

\* round(x) to the nearest integer, ties to the even one, for x = n/d >= 0
RoundHalfEven(n, d) ==
    LET q == n \div d
        r == n % d
    IN  IF 2 * r > d THEN q + 1
        ELSE IF 2 * r = d THEN q + (q % 2)
        ELSE q

\* format spec ".1f" of the rational r
Fmt1(r) ==
    LET neg    == r.n < 0
        tenths == RoundHalfEven((IF neg THEN -r.n ELSE r.n) * 10, r.d)
    IN  (IF neg THEN "-" ELSE "") \o ToString(tenths \div 10) \o "."
        \o ToString(tenths % 10)

\* format spec "02d" of a non-negative integer
Fmt02d(n) == IF n < 10 THEN "0" \o ToString(n) ELSE ToString(n)

RatLess(r, k) == r.n < k * r.d

Units == <<"B", "KB", "MB", "GB", "TB">>

RECURSIVE fmt_bytes_from(_, _)
fmt_bytes_from(num, i) ==
    IF i > Len(Units) THEN Fmt1(num) \o "PB"
    ELSE IF RatLess(num, 1024) THEN Fmt1(num) \o Units[i]
    ELSE fmt_bytes_from(Rat(num.n, num.d * 1024), i + 1)

\* fmt_bytes of a rational
fmt_bytes(num) == fmt_bytes_from(num, 1)

\* fmt_duration showing hours, minutes and seconds whatever the days
fmt_duration_without_days(hundredths) ==
    LET seconds == hundredths \div 100
        rem1    == seconds % 86400
        hours   == rem1 \div 3600
        rem2    == rem1 % 3600
        mins    == rem2 \div 60
        secs    == rem2 % 60
    IN  Fmt02d(hours) \o "h " \o Fmt02d(mins) \o "m " \o Fmt02d(secs) \o "s"

\* fmt_duration; the uptime is kept in hundredths of a second and int()
\* drops the fraction
fmt_duration(hundredths) ==
    LET seconds == hundredths \div 100
        days    == seconds \div 86400
        rem1    == seconds % 86400
        hours   == rem1 \div 3600
        rem2    == rem1 % 3600
        mins    == rem2 \div 60
        secs    == rem2 % 60
    IN  IF days # 0
        THEN ToString(days) \o "d " \o Fmt02d(hours) \o "h " \o Fmt02d(mins) \o "m"
        ELSE Fmt02d(hours) \o "h " \o Fmt02d(mins) \o "m " \o Fmt02d(secs) \o "s"

\* draw_bar without the clamp of the value
draw_bar_unclamped(value, width) ==
    LET filled == RoundHalfEven(value.n * width, value.d * 100)
    IN  "[" \o Repeat("#", filled) \o Repeat("-", width - filled) \o "]"

\* draw_bar of a rational value
draw_bar(value, width) ==
    LET v      == IF value.n < 0 THEN Zero
                  ELSE IF value.n > 100 * value.d THEN Rat(100, 1)
                  ELSE value
        filled == RoundHalfEven(v.n * width, v.d * 100)
    IN  "[" \o Repeat("#", filled) \o Repeat("-", width - filled) \o "]"

\* ----------------------------------------------------- build_panel_lines

\* every interface and device name of the samples, in the order sorted()
\* puts the strings (by code point)
NameOrder ==
    <<"eth0", "eth1", "lo", "mmcblk0", "nvme0n1", "sda", "sdb", "sdc",
      "usb0", "wlan0", "wlan1">>

\* sorted(d.items()): the keys of d in ascending order
SortedKeys(d) == SelectSeq(NameOrder, LAMBDA k : k \in DOMAIN d)

\* [f(x) for x in seq]
MapSeq(seq, f(_)) == [i \in 1..Len(seq) |-> f(seq[i])]

RECURSIVE JoinComma(_)
\* ", ".join(seq)
JoinComma(seq) ==
    IF Len(seq) = 0 THEN ""
    ELSE IF Len(seq) = 1 THEN seq[1]
    ELSE seq[1] \o ", " \o JoinComma(Tail(seq))

\* x / y * 100.0 if y else 0.0
Percent(x, y) == IF y # 0 THEN Rat(x * 100, y) ELSE Zero

\* max(8, min(30, width - 18))
bar_width(width) == Max(8, Min(30, width - 18))

cpu_section(metrics, width) ==
    LET cpu_pcts == Get(metrics, "cpu_pcts", <<>>)
    IN  IF Truthy(cpu_pcts)
        THEN << "CPU  " \o PadLeft(Fmt1(cpu_pcts[1][2]), 5) \o "% "
                \o draw_bar(cpu_pcts[1][2], bar_width(width)) >>
             \o MapSeq(SubSeq(cpu_pcts, 2, Min(9, Len(cpu_pcts))),
                       LAMBDA c : PadRight(c[1], 4) \o " "
                                  \o PadLeft(Fmt1(c[2]), 5) \o "%")
        ELSE << "CPU  N/A" >>

mem_section(metrics, width) ==
    LET mem_total  == Get(metrics, "mem_total", 0)
        mem_used   == Get(metrics, "mem_used", 0)
        mem_pct    == Percent(mem_used, mem_total)
        swap_total == Get(metrics, "swap_total", 0)
        swap_used  == Get(metrics, "swap_used", 0)
        swap_pct   == Percent(swap_used, swap_total)
    IN  << "MEM  " \o PadLeft(Fmt1(mem_pct), 5) \o "% "
           \o draw_bar(mem_pct, bar_width(width)) \o " "
           \o fmt_bytes(Rat(mem_used, 1)) \o " / " \o fmt_bytes(Rat(mem_total, 1)),
           "SWAP " \o PadLeft(Fmt1(swap_pct), 5) \o "% "
           \o draw_bar(swap_pct, bar_width(width)) \o " "
           \o fmt_bytes(Rat(swap_used, 1)) \o " / " \o fmt_bytes(Rat(swap_total, 1)) >>

\* temperatures are kept in millidegrees
status_section(metrics) ==
    LET temps   == Get(metrics, "temps", <<>>)
        loadavg == Get(metrics, "loadavg", <<"0.00", "0.00", "0.00">>)
    IN  << "TEMP " \o (IF Truthy(temps)
                       THEN JoinComma(MapSeq(Take(temps, 3),
                                LAMBDA t : Fmt1(Rat(t, 1000)) \o "C"))
                       ELSE "N/A"),
           "LOAD " \o loadavg[1] \o " " \o loadavg[2] \o " " \o loadavg[3],
           "UPTIME " \o fmt_duration(Get(metrics, "uptime", 0)) >>

\* net_section showing every interface
net_section_uncapped(metrics) ==
    LET net_rates == Get(metrics, "net_rates", <<>>)
    IN  << "NET" >>
        \o MapSeq(SortedKeys(net_rates),
                  LAMBDA iface : "  " \o PadRight(iface, 8)
                      \o " RX " \o fmt_bytes(net_rates[iface][1])
                      \o "/s TX " \o fmt_bytes(net_rates[iface][2]) \o "/s")

net_section(metrics) ==
    LET net_rates == Get(metrics, "net_rates", <<>>)
    IN  << "NET" >>
        \o MapSeq(Take(SortedKeys(net_rates), 5),
                  LAMBDA iface : "  " \o PadRight(iface, 8)
                      \o " RX " \o fmt_bytes(net_rates[iface][1])
                      \o "/s TX " \o fmt_bytes(net_rates[iface][2]) \o "/s")

disk_section(metrics) ==
    LET disk_rates == Get(metrics, "disk_rates", <<>>)
    IN  << "DISK USAGE" >>
        \o MapSeq(Take(Get(metrics, "disk_usage", <<>>), 4),
                  LAMBDA u : "  " \o PadRight(SliceTo(u[1], 10), 10) \o " "
                      \o PadLeft(Fmt1(Percent(u[4], u[3])), 5) \o "% "
                      \o fmt_bytes(Rat(u[4], 1)) \o " / " \o fmt_bytes(Rat(u[3], 1)))
        \o << "DISK IO" >>
        \o MapSeq(Take(SortedKeys(disk_rates), 4),
                  LAMBDA dev : "  " \o PadRight(dev, 8)
                      \o " R " \o fmt_bytes(disk_rates[dev][1])
                      \o "/s W " \o fmt_bytes(disk_rates[dev][2]) \o "/s")

top_rows(rows) ==
    MapSeq(Take(rows, 3),
           LAMBDA p : "  " \o PadLeft(p[1], 5) \o " "
               \o PadRight(SliceTo(p[2], 10), 10) \o " "
               \o PadLeft(p[3], 5) \o "% " \o PadLeft(p[4], 5) \o "%")

top_section(metrics) ==
    << "TOP CPU" >> \o top_rows(Get(metrics, "top_cpu", <<>>))
    \o << "TOP MEM" >> \o top_rows(Get(metrics, "top_mem", <<>>))

\* the cut one character too late
clip_one_late(line, width) == SliceTo(line, width + 1)

\* line[:width] of the last statement of build_panel_lines
clip(line, width) == SliceTo(line, width)

build_panel_lines(metrics, title, width) ==
    MapSeq(<< title >>
           \o cpu_section(metrics, width)
           \o mem_section(metrics, width)
           \o status_section(metrics)
           \o net_section(metrics)
           \o disk_section(metrics)
           \o top_section(metrics),
           LAMBDA line : clip(line, width))

\* -------------------------------------------------------- counter readers

\* A kernel source at the moment it is opened: unreadable (open raises
\* OSError) or a text of lines.  A line is kept without its newline.
Unreadable == [readable |-> FALSE, lines |-> <<>>]

Readable(lines) == [readable |-> TRUE, lines |-> lines]

\* what a reader did: returned v, or let the exception exc out
Ok(v) == [ok |-> TRUE, v |-> v, exc |-> ""]

Err(exc) == [ok |-> FALSE, v |-> <<>>, exc |-> exc]

\* s.startswith(prefix)
startswith(s, prefix) ==
    Len(s) >= Len(prefix) /\ SubSeq(s, 1, Len(prefix)) = prefix

RECURSIVE TokenEnd(_, _)
\* the index after the run of non-blank characters of s that starts at i
TokenEnd(s, i) ==
    IF i > Len(s) \/ SubSeq(s, i, i) \in Whitespace THEN i
    ELSE TokenEnd(s, i + 1)

RECURSIVE split(_)
\* s.split(): the runs of non-blank characters
split(s) ==
    LET t == lstrip(s)
    IN  IF t = "" THEN <<>>
        ELSE LET e == TokenEnd(t, 1)
             IN  << SubSeq(t, 1, e - 1) >> \o split(SubSeq(t, e, Len(t)))

RECURSIVE Find(_, _, _)
\* the index of the first ch in s at or after i, 0 when there is none
Find(s, ch, i) ==
    IF i > Len(s) THEN 0
    ELSE IF SubSeq(s, i, i) = ch THEN i
    ELSE Find(s, ch, i + 1)

\* s.split(ch, 1): the text before and after the first ch, or the one text s
split_once(s, ch) ==
    LET i == Find(s, ch, 1)
    IN  IF i = 0 THEN << s >>
        ELSE << SubSeq(s, 1, i - 1), SubSeq(s, i + 1, Len(s)) >>

Digits == <<"0", "1", "2", "3", "4", "5", "6", "7", "8", "9">>

IsDigit(ch) == \E i \in 1..Len(Digits) : Digits[i] = ch

DigitValue(ch) == (CHOOSE i \in 1..Len(Digits) : Digits[i] = ch) - 1

\* tok is one or more decimal digits
IsDigits(tok) ==
    Len(tok) > 0 /\ \A i \in 1..Len(tok) : IsDigit(SubSeq(tok, i, i))

RECURSIVE DigitsValue(_)
DigitsValue(tok) ==
    IF Len(tok) = 0 THEN 0
    ELSE DigitsValue(SubSeq(tok, 1, Len(tok) - 1)) * 10
         + DigitValue(SubSeq(tok, Len(tok), Len(tok)))

\* int(tok) accepts tok: digits after an optional sign
IsInt(tok) ==
    IF Len(tok) > 0 /\ SubSeq(tok, 1, 1) \in {"-", "+"}
    THEN IsDigits(SubSeq(tok, 2, Len(tok)))
    ELSE IsDigits(tok)

\* int(tok) of a token int() accepts
ParseInt(tok) ==
    IF SubSeq(tok, 1, 1) = "-" THEN 0 - DigitsValue(SubSeq(tok, 2, Len(tok)))
    ELSE IF SubSeq(tok, 1, 1) = "+" THEN DigitsValue(SubSeq(tok, 2, Len(tok)))
    ELSE DigitsValue(tok)

\* float(tok) accepts tok; of float's syntax the model knows digits with an
\* optional fraction of one or two digits, the form the kernel prints
IsFloat(tok) ==
    LET p == split_once(tok, ".")
    IN  IF Len(p) = 1 THEN IsDigits(tok)
        ELSE IsDigits(p[1]) /\ IsDigits(p[2]) /\ Len(p[2]) <= 2

\* float(tok) in hundredths
ParseFloat(tok) ==
    LET p == split_once(tok, ".")
    IN  IF Len(p) = 1 THEN DigitsValue(tok) * 100
        ELSE DigitsValue(p[1]) * 100
             + (IF Len(p[2]) = 1 THEN DigitsValue(p[2]) * 10 ELSE DigitsValue(p[2]))

\* d[key] = value
Put(d, key, value) ==
    [k \in DOMAIN d \cup {key} |-> IF k = key THEN value ELSE d[k]]

RECURSIVE cpu_lines_from(_)
\* the loop of read_cpu_lines over the lines not yet read
cpu_lines_from(lines) ==
    IF Len(lines) = 0 THEN Ok(<<>>)
    ELSE LET line == Head(lines)
             parts == split(strip(line))
         IN  IF ~startswith(line, "cpu") THEN Ok(<<>>)
             ELSE IF \E i \in 2..Len(parts) : ~IsInt(parts[i])
             THEN Err("ValueError")
             ELSE LET rest == cpu_lines_from(Tail(lines))
                  IN  IF ~rest.ok THEN rest
                      ELSE Ok(<< <<parts[1],
                                   [i \in 1..(Len(parts) - 1) |-> ParseInt(parts[i + 1])]>> >>
                              \o rest.v)

read_cpu_lines(file) ==
    IF ~file.readable THEN Err("OSError") ELSE cpu_lines_from(file.lines)

RECURSIVE meminfo_from(_, _)
\* the loop of read_meminfo, info the dict built so far
meminfo_from(lines, info) ==
    IF Len(lines) = 0 THEN Ok(info)
    ELSE LET kv == split_once(Head(lines), ":")
         IN  IF Len(kv) # 2 THEN Err("ValueError")
             ELSE LET val == split(strip(kv[2]))
                  IN  IF Len(val) = 0 THEN Err("IndexError")
                      ELSE IF ~IsInt(val[1]) THEN Err("ValueError")
                      ELSE meminfo_from(Tail(lines),
                                        Put(info, strip(kv[1]), ParseInt(val[1])))

read_meminfo(file) ==
    IF ~file.readable THEN Err("OSError") ELSE meminfo_from(file.lines, <<>>)

RECURSIVE FileTokens(_)
\* f.read().split(): the tokens of all the lines
FileTokens(lines) ==
    IF Len(lines) = 0 THEN <<>>
    ELSE split(Head(lines)) \o FileTokens(Tail(lines))

read_loadavg(file) ==
    IF ~file.readable THEN Err("OSError")
    ELSE Ok(Take(FileTokens(file.lines), 3))

read_uptime_seconds(file) ==
    IF ~file.readable THEN Err("OSError")
    ELSE LET parts == FileTokens(file.lines)
         IN  IF Len(parts) = 0 THEN Err("IndexError")
             ELSE IF ~IsFloat(parts[1]) THEN Err("ValueError")
             ELSE Ok(ParseFloat(parts[1]))

RECURSIVE net_bytes_from(_, _)
\* the loop of read_net_bytes, data the dict built so far
net_bytes_from(lines, data) ==
    IF Len(lines) = 0 THEN Ok(data)
    ELSE LET line  == Head(lines)
             kv    == split_once(line, ":")
             parts == split(kv[2])
         IN  IF Len(kv) # 2 THEN net_bytes_from(Tail(lines), data)
             ELSE IF Len(parts) < 16 THEN net_bytes_from(Tail(lines), data)
             ELSE IF ~IsInt(parts[1]) \/ ~IsInt(parts[9]) THEN Err("ValueError")
             ELSE net_bytes_from(Tail(lines),
                                 Put(data, strip(kv[1]),
                                     <<ParseInt(parts[1]), ParseInt(parts[9])>>))

\* readlines()[2:] drops the two header lines
read_net_bytes(file) ==
    IF ~file.readable THEN Err("OSError")
    ELSE net_bytes_from(SubSeq(file.lines, 3, Len(file.lines)), <<>>)

DISK_DEV_PREFIXES == <<"sd", "nvme", "mmcblk">>

RECURSIVE diskstats_from(_, _)
\* the loop of read_diskstats, stats the dict built so far
diskstats_from(lines, stats) ==
    IF Len(lines) = 0 THEN Ok(stats)
    ELSE LET parts == split(Head(lines))
         IN  IF Len(parts) < 10 THEN diskstats_from(Tail(lines), stats)
             ELSE IF ~\E i \in 1..Len(DISK_DEV_PREFIXES) :
                         startswith(parts[3], DISK_DEV_PREFIXES[i])
             THEN diskstats_from(Tail(lines), stats)
             ELSE IF ~IsInt(parts[6]) \/ ~IsInt(parts[10]) THEN Err("ValueError")
             ELSE diskstats_from(Tail(lines),
                                 Put(stats, parts[3],
                                     <<ParseInt(parts[6]), ParseInt(parts[10])>>))

read_diskstats(file) ==
    IF ~file.readable THEN Err("OSError") ELSE diskstats_from(file.lines, <<>>)

SKIP_FS ==
    {"proc", "sysfs", "tmpfs", "devtmpfs", "devpts", "overlay", "squashfs",
     "cgroup", "cgroup2", "pstore", "debugfs", "tracefs", "securityfs",
     "mqueue", "hugetlbfs", "configfs", "fusectl"}

\* every mount path of the mount tables below, in the order sort() puts the
\* strings (by code point)
PathOrder == <<"/", "/boot", "/mnt/usb", "/proc", "/run">>

\* mounts.sort(key=lambda m: m[0]): a stable sort by the mount path
sort_by_mount(mounts) ==
    LET of(p) == SelectSeq(mounts, LAMBDA m : m[1] = p)
    IN  of(PathOrder[1]) \o of(PathOrder[2]) \o of(PathOrder[3])
        \o of(PathOrder[4]) \o of(PathOrder[5])

RECURSIVE mounts_from_keeping_last(_, _, _)
\* the loop of list_mounts with a later line of a mount path replacing the
\* earlier one
mounts_from_keeping_last(lines, mounts, seen) ==
    IF Len(lines) = 0 THEN mounts
    ELSE LET parts == split(Head(lines))
         IN  IF Len(parts) < 3
             THEN mounts_from_keeping_last(Tail(lines), mounts, seen)
             ELSE IF parts[3] \in SKIP_FS
             THEN mounts_from_keeping_last(Tail(lines), mounts, seen)
             ELSE mounts_from_keeping_last(
                      Tail(lines),
                      Append(SelectSeq(mounts, LAMBDA m : m[1] # parts[2]),
                             <<parts[2], parts[3]>>),
                      seen \cup {parts[2]})

RECURSIVE mounts_from(_, _, _)
\* the loop of list_mounts: mounts the list and seen the set built so far
mounts_from(lines, mounts, seen) ==
    IF Len(lines) = 0 THEN mounts
    ELSE LET parts == split(Head(lines))
         IN  IF Len(parts) < 3 THEN mounts_from(Tail(lines), mounts, seen)
             ELSE IF parts[3] \in SKIP_FS
             THEN mounts_from(Tail(lines), mounts, seen)
             ELSE IF parts[2] \in seen
             THEN mounts_from(Tail(lines), mounts, seen)
             ELSE mounts_from(Tail(lines),
                              Append(mounts, <<parts[2], parts[3]>>),
                              seen \cup {parts[2]})

list_mounts(file) ==
    IF ~file.readable THEN Err("OSError")
    ELSE Ok(sort_by_mount(mounts_from(file.lines, <<>>, {})))

\* ------------------------------------------------------ collect_local_raw

\* The local kernel sources at the moment of a poll: readable and well
\* formed (the sampler returns sample i), unreadable (open raises OSError)
\* or holding a line int() rejects (ValueError).
LocalSources(host) ==
    { [status |-> "ok", sample |-> i] :
        i \in (IF host = 0 THEN Samples
               ELSE IF host = 1 THEN {1, 2}
               ELSE {host}) }
    \cup { [status |-> "unreadable", sample |-> host],
           [status |-> "malformed", sample |-> host] }

\* collect_local_raw: the readers open and parse without a try block, so a
\* source that is unreadable or malformed raises out of the sampler
collect_local_raw(src) ==
    IF src.status = "ok"
    THEN [raised |-> FALSE, raw |-> HostSample(src.sample)]
    ELSE [raised |-> TRUE, raw |-> <<>>]

\* ------------------------------------------------------------- dashboard

\* wall-clock readings of time.time(), in milliseconds; the clock may stand
\* still or be set back between two polls
Times == {10000, 10500}

\* what stdscr.getkey() returns; "" stands for curses.error (no key waiting)
Keys == {"", "q", "Q", "x"}

\* the sizes stdscr.getmaxyx() reports, <<height, width>>: a one-column
\* terminal, and the widths on either side of the 40-column threshold
TermSizes == { <<24, 1>>, <<24, 81>>, <<24, 82>> }

\* below this column width the remote panel is dropped
MinColWidth == 40

\* gap = 2
Gap == 2

col_width(width) == (width - Gap) \div 2

\* the width the loop passes to build_panel_lines for the local panel
panel_width(width) ==
    IF col_width(width) < MinColWidth THEN width - 1 ELSE col_width(width)

\* the remote panel of a frame (lines 633-636)
remote_panel(metrics, err, width) ==
    IF TruthyVal(metrics)
    THEN build_panel_lines(metrics.v, "REMOTE", width)
    ELSE << "REMOTE",
            "Error: " \o (IF TruthyVal(err) THEN err.v ELSE "no data") >>

\* The locals of one loop iteration before the iteration assigns them.  Each
\* is assigned in every iteration before it is read, so the value an earlier
\* iteration left in it is dead once that iteration has ended.
\*   now, local_raw, local_metrics, remote_raw, remote_err, remote_metrics,
\*   key: the locals of dashboard ("" for key is None)
\*   term: <<height, width>> of stdscr.getmaxyx()
\*   bottom: the text on the bottom row of the frame at stdscr.refresh()
\*   local_lines, remote_lines, hint: what the frame painted (remote_lines
\*   is <<>> when no remote panel was drawn)
\*   run, ssh_call: the outcome of subprocess.run and how ssh_remote_raw
\*   ended ("" not called yet, "returned", "raised")
\*   prev_local_in, prev_remote_in: the previous state the cycle's
\*   compute_metrics was given
\*   local_calls, remote_calls: how often the iteration has called
\*   collect_local_raw and ssh_remote_raw
Unassigned ==
    [now |-> 0, local_raw |-> <<>>, local_metrics |-> <<>>,
     remote_raw |-> PyNone, remote_err |-> PyNone, remote_metrics |-> PyNone,
     term |-> <<0, 0>>, local_lines |-> <<>>, remote_lines |-> <<>>,
     hint |-> FALSE, bottom |-> "", key |-> "",
     run |-> [kind |-> "none"], ssh_call |-> "",
     prev_local_in |-> <<>>, prev_remote_in |-> <<>>,
     local_calls |-> 0, remote_calls |-> 0]

\* lines 587-592: the frame of dashboard entering the loop, prev_local = {}
\* and prev_remote = {}.  pc is the position in the loop, exc the exception
\* that left dashboard ("" while none has).
Entered ==
    [pc |-> "poll", exc |-> "", prev_local |-> <<>>, prev_remote |-> <<>>]
    @@ Unassigned

\* an exception nobody catches leaves dashboard: the program ends
crash(s, e) == [s EXCEPT !.pc = "crashed", !.exc = e]

\* lines 595-603: now, collect_local_raw, compute_metrics, prev_local
poll_local(s, t, src) ==
    LET r == collect_local_raw(src)
    IN  IF r.raised
        THEN crash([s EXCEPT !.now = t, !.local_calls = @ + 1],
                   IF src.status = "unreadable" THEN "OSError" ELSE "ValueError")
        ELSE [s EXCEPT !.now = t,
                       !.local_calls = @ + 1,
                       !.local_raw = r.raw,
                       !.local_metrics = compute_metrics(r.raw, s.prev_local, t),
                       !.prev_local_in = s.prev_local,
                       !.prev_local = previous_state(r.raw, t),
                       !.pc = "remote"]

\* poll_remote forgetting the remote previous state when the call gave no
\* document
poll_remote_forgetting(s, run) ==
    LET r == ssh_remote_raw(run)
    IN  IF r.raised
        THEN crash([s EXCEPT !.run = run, !.ssh_call = "raised",
                             !.remote_calls = @ + 1], "OSError")
        ELSE LET got == [s EXCEPT !.run = run, !.ssh_call = "returned",
                                  !.remote_calls = @ + 1,
                                  !.remote_raw = r.data, !.remote_err = r.err]
             IN  IF TruthyVal(r.data)
                 THEN IF r.data.t # "dict"
                      THEN crash(got, "AttributeError")
                      ELSE [got EXCEPT
                              !.remote_metrics =
                                  PyDict(compute_metrics(r.data.v, s.prev_remote, s.now)),
                              !.prev_remote_in = s.prev_remote,
                              !.prev_remote = previous_state(r.data.v, s.now),
                              !.pc = "paint"]
                 ELSE [got EXCEPT !.remote_metrics = PyNone,
                                  !.prev_remote = <<>>, !.pc = "paint"]

\* poll_remote stamping the remote previous state with the time of a cycle
\* whose call gave no document
poll_remote_restamping(s, run) ==
    LET r == ssh_remote_raw(run)
    IN  IF r.raised
        THEN crash([s EXCEPT !.run = run, !.ssh_call = "raised",
                             !.remote_calls = @ + 1], "OSError")
        ELSE LET got == [s EXCEPT !.run = run, !.ssh_call = "returned",
                                  !.remote_calls = @ + 1,
                                  !.remote_raw = r.data, !.remote_err = r.err]
             IN  IF TruthyVal(r.data)
                 THEN IF r.data.t # "dict"
                      THEN crash(got, "AttributeError")
                      ELSE [got EXCEPT
                              !.remote_metrics =
                                  PyDict(compute_metrics(r.data.v, s.prev_remote, s.now)),
                              !.prev_remote_in = s.prev_remote,
                              !.prev_remote = previous_state(r.data.v, s.now),
                              !.pc = "paint"]
                 ELSE [got EXCEPT
                         !.remote_metrics = PyNone,
                         !.prev_remote =
                             IF s.prev_remote = <<>> THEN <<>>
                             ELSE [s.prev_remote EXCEPT !["time"] = s.now],
                         !.pc = "paint"]

\* lines 605-615: ssh_remote_raw, then compute_metrics and prev_remote when
\* the returned document is truthy
poll_remote(s, run) ==
    LET r == ssh_remote_raw(run)
    IN  IF r.raised
        THEN crash([s EXCEPT !.run = run, !.ssh_call = "raised",
                             !.remote_calls = @ + 1], "OSError")
        ELSE LET got == [s EXCEPT !.run = run, !.ssh_call = "returned",
                                  !.remote_calls = @ + 1,
                                  !.remote_raw = r.data, !.remote_err = r.err]
             IN  IF TruthyVal(r.data)
                 THEN IF r.data.t # "dict"
                      THEN \* raw.get on a list: AttributeError
                           crash(got, "AttributeError")
                      ELSE [got EXCEPT
                              !.remote_metrics =
                                  PyDict(compute_metrics(r.data.v, s.prev_remote, s.now)),
                              !.prev_remote_in = s.prev_remote,
                              !.prev_remote = previous_state(r.data.v, s.now),
                              !.pc = "paint"]
                 ELSE [got EXCEPT !.remote_metrics = PyNone, !.pc = "paint"]

\* lines 445-449: safe_addstr(stdscr, y, 0, text) on a row holding row, in a
\* terminal of the given width: the text replaces the cells it covers and
\* leaves the others as they were; what does not fit the row raises
\* curses.error, which is swallowed
safe_addstr(row, text, width) ==
    LET put == SliceTo(text, Max(width, 0))
    IN  put \o SubSeq(row, Len(put) + 1, Len(row))

\* time.strftime('%H:%M:%S') of a clock reading in milliseconds (UTC)
strftime(t) ==
    LET secs == (t \div MsPerSec) % 86400
    IN  Fmt02d(secs \div 3600) \o ":" \o Fmt02d((secs % 3600) \div 60)
            \o ":" \o Fmt02d(secs % 60)

\* line 630
HintLine == "Widen terminal for remote panel"

\* lines 630 and 641: the writes to row height - 1 of the erased screen, the
\* hint first (narrow terminals only), then the time of the update
bottom_row(narrow, t, width) ==
    LET hinted == IF narrow THEN safe_addstr("", HintLine, width) ELSE ""
    IN  safe_addstr(hinted, "Updated: " \o strftime(t), width)

\* lines 617-642: erase, size, title, panels, refresh; every write goes
\* through safe_addstr, which swallows curses.error
paint(s, sz) ==
    LET width == sz[2]
        narrow == col_width(width) < MinColWidth
    IN  [s EXCEPT
           !.bottom = bottom_row(narrow, s.now, width),
           !.term = sz,
           !.local_lines = build_panel_lines(s.local_metrics, "LOCAL",
                                             panel_width(width)),
           !.remote_lines = IF narrow THEN <<>>
                            ELSE remote_panel(s.remote_metrics, s.remote_err,
                                              col_width(width)),
           !.hint = narrow,
           !.pc = "key"]

\* lines 644-649: the non-blocking key check; q or Q leaves the loop
get_key(s, k) ==
    [s EXCEPT !.key = k, !.pc = IF k \in {"q", "Q"} THEN "done" ELSE "sleep"]

\* line 651: time.sleep(0.5), then the next iteration; prev_local and
\* prev_remote are what is carried over
sleep(s) ==
    [pc |-> "poll", exc |-> s.exc, prev_local |-> s.prev_local,
     prev_remote |-> s.prev_remote] @@ Unassigned

\* ------------------------------------- world_status_dashboard/dashboard.py

\* A datetime in the dashboard's time zone, as the minutes since 00:00 of
\* the day the program was started (the scheduler compares whole minutes).
MinutesPerDay == 1440

\* a datetime value, as opposed to None
PyDatetime(m) == [t |-> "datetime", v |-> m]

\* now.replace(hour=hour, minute=minute, second=0, microsecond=0)
replace(now, hour, minute) ==
    (now \div MinutesPerDay) * MinutesPerDay + hour * 60 + minute

\* now.isoformat(): "<day>T<HH>:<MM>"
isoformat(now) ==
    ToString(now \div MinutesPerDay) \o "T"
        \o Fmt02d((now % MinutesPerDay) \div 60) \o ":"
        \o Fmt02d(now % 60)

\* dt.datetime.fromisoformat(text): the datetime, or a ValueError
fromisoformat(text) ==
    LET d == split_once(text, "T")
        c == IF Len(d) = 2 THEN split_once(d[2], ":") ELSE <<>>
    IN  IF /\ Len(d) = 2
           /\ Len(c) = 2
           /\ IsDigits(d[1])
           /\ Len(c[1]) = 2 /\ IsDigits(c[1]) /\ DigitsValue(c[1]) <= 23
           /\ Len(c[2]) = 2 /\ IsDigits(c[2]) /\ DigitsValue(c[2]) <= 59
        THEN Ok(PyDatetime(DigitsValue(d[1]) * MinutesPerDay
                           + DigitsValue(c[1]) * 60 + DigitsValue(c[2])))
        ELSE Err("ValueError")

RECURSIVE split_on(_, _)
\* s.split(ch)
split_on(s, ch) ==
    LET i == Find(s, ch, 1)
    IN  IF i = 0 THEN << s >>
        ELSE << SubSeq(s, 1, i - 1) >> \o split_on(SubSeq(s, i + 1, Len(s)), ch)

\* [s.strip() for s in value.split(",") if s.strip()]
schedule_items(value) ==
    LET parts == split_on(value, ",")
        kept  == { i \in 1..Len(parts) : strip(parts[i]) # "" }
        nth(k) == CHOOSE i \in kept : Cardinality({ j \in kept : j < i }) = k - 1
    IN  [k \in 1..Cardinality(kept) |-> strip(parts[nth(k)])]

\* line 26
DEFAULT_NEWS_SCHEDULE == <<"06:00", "12:00", "20:00">>

RECURSIVE parse_schedule_items(_)
\* lines 149-162: the items that read as hour:minute, as "HH:MM"
parse_schedule_items(items) ==
    IF items = <<>> THEN <<>>
    ELSE LET parts == split_on(Head(items), ":")
             rest  == parse_schedule_items(Tail(items))
         IN  IF Len(parts) # 2 THEN rest
             ELSE IF ~(IsInt(strip(parts[1])) /\ IsInt(strip(parts[2]))) THEN rest
             ELSE LET hour   == ParseInt(strip(parts[1]))
                      minute == ParseInt(strip(parts[2]))
                  IN  IF ~(0 <= hour /\ hour <= 23 /\ 0 <= minute /\ minute <= 59)
                      THEN rest
                      ELSE << Fmt02d(hour) \o ":" \o Fmt02d(minute) >> \o rest

\* parse_schedule(value) of a list, a string or anything else
parse_schedule(value) ==
    CASE value.t = "list" -> parse_schedule_items(value.v)
      [] value.t = "str"  -> parse_schedule_items(schedule_items(value.v))
      [] OTHER            -> <<>>

\* lines 181-182 of load_settings: config.get("news_schedule", default)
\* parsed, the default schedule when nothing of it parses
load_settings(config) ==
    LET schedule == Get(config, "news_schedule", PyList(DEFAULT_NEWS_SCHEDULE))
    IN  IF parse_schedule(schedule) # <<>> THEN parse_schedule(schedule)
        ELSE DEFAULT_NEWS_SCHEDULE

\* lines 654-656 and 692 of settings_screen: the schedule typed in, the
\* current one when nothing of it parses
settings_screen(NEWS_SCHEDULE, new_schedule_input) ==
    IF parse_schedule(PyStr(new_schedule_input)) # <<>>
    THEN parse_schedule(PyStr(new_schedule_input))
    ELSE NEWS_SCHEDULE

\* the greatest element of a non-empty set of integers
MaxOf(S) == CHOOSE x \in S : \A y \in S : y <= x

\* schedule_due ignoring when the news was last fetched
schedule_due_ignoring_last(NEWS_SCHEDULE, now, last_fetch_dt) ==
    IF NEWS_SCHEDULE = <<>> THEN TRUE
    ELSE LET schedule_times ==
                 { replace(now,
                           ParseInt(split_on(NEWS_SCHEDULE[i], ":")[1]),
                           ParseInt(split_on(NEWS_SCHEDULE[i], ":")[2])) :
                     i \in 1..Len(NEWS_SCHEDULE) }
             due_times == { t \in schedule_times : now >= t }
         IN  due_times # {}

\* lines 316-331; last_fetch_dt is None or a datetime (one read from the
\* cache carries its offset, so line 320 does not apply)
schedule_due(NEWS_SCHEDULE, now, last_fetch_dt) ==
    IF NEWS_SCHEDULE = <<>> THEN TRUE
    ELSE LET schedule_times ==
                 { replace(now,
                           ParseInt(split_on(NEWS_SCHEDULE[i], ":")[1]),
                           ParseInt(split_on(NEWS_SCHEDULE[i], ":")[2])) :
                     i \in 1..Len(NEWS_SCHEDULE) }
             due_times == { t \in schedule_times : now >= t }
         IN  IF due_times = {} THEN FALSE
             ELSE IF last_fetch_dt.t = "none" THEN TRUE
             ELSE last_fetch_dt.v < MaxOf(due_times)

\* what the xAI client does when asked for posts: "ok" a JSON answer,
\* "invalid" an answer that is no JSON, "exception" an error of the client
\* or the network, "unwritable" a JSON answer with a cache file that cannot
\* be written
FetchOutcomes == {"ok", "invalid", "exception", "unwritable"}

\* how the process was started: with key and SDK, without XAI_API_KEY, or
\* without the xai-sdk package
XaiSetups == {"ready", "no_key", "no_sdk"}

\* the news dict of an error
NewsError(msg) == PyDict([k \in {"error"} |-> msg])

\* the news dict get_news stores and returns (lines 405-407); items and
\* summary are not told apart
NewsData(now) == PyDict([k \in {"fetched_at"} |-> isoformat(now)])

\* lines 334-407: get_news(now, force) with the cache file holding cache
\* (PyNone: no readable file), in a process set up as xai, the client
\* answering with outcome.  Gives the result, the cache file afterwards,
\* whether the client was asked (fetched), whether the cache file was
\* written (stored), whether an exception left
\* get_news (raised), the time of the last fetch as read from the cache and
\* what schedule_due said if it was asked.
get_news(NEWS_SCHEDULE, cache, xai, now, force, outcome) ==
    LET cached == cache
        stamp  == IF TruthyVal(cached) THEN Get(cached.v, "fetched_at", "")
                  ELSE ""
        last_fetch_dt ==
            IF stamp # "" /\ fromisoformat(stamp).ok
            THEN fromisoformat(stamp).v
            ELSE PyNone
        asked == TruthyVal(cached) /\ ~force
        due   == schedule_due(NEWS_SCHEDULE, now, last_fetch_dt)
        out(news, file, fetched, stored, raised) ==
            [news |-> news, cache |-> file, fetched |-> fetched,
             stored |-> stored, raised |-> raised,
             last_fetch_dt |-> last_fetch_dt,
             due |-> IF ~asked THEN "not asked"
                     ELSE IF due THEN "due" ELSE "not due"]
    IN  IF asked /\ ~due
        THEN out(cached, cache, FALSE, FALSE, FALSE)
        ELSE IF xai = "no_key"
        THEN out(NewsError("Missing XAI_API_KEY"), cache, FALSE, FALSE, FALSE)
        ELSE IF xai = "no_sdk"
        THEN out(NewsError("Missing dependency"), cache, FALSE, FALSE, FALSE)
        ELSE IF outcome = "exception"
        THEN out(NewsError("client error"), cache, TRUE, FALSE, FALSE)
        ELSE IF outcome = "invalid"
        THEN out(NewsError("Invalid response from xAI search"), cache,
                 TRUE, FALSE, FALSE)
        ELSE IF outcome = "unwritable"
        THEN out(NewsError("OSError"), cache, TRUE, FALSE, TRUE)
        ELSE out(NewsData(now), NewsData(now), TRUE, TRUE, FALSE)

\* The locals of one iteration of the world-status loop before it assigns
\* them: now, news and key of dashboard (lines 890-917), and of the
\* iteration's get_news(now, force=False): cache_in the cache file it read,
\* last_fetch_dt and due what it made of it, fetched whether it asked the
\* client, stored whether it wrote the cache file.
WdUnassigned ==
    [key |-> "", cache_in |-> PyNone, last_fetch_dt |-> PyNone, due |-> "",
     fetched |-> FALSE, stored |-> FALSE]

\* lines 39-47 and 883-893: the process before main has loaded the settings.
\* pc is the position in the loop; cache the file .cache/news.json; failed
\* whether the last fetch of the current iteration failed, failed_before the
\* same of the iteration before.
WdStart ==
    [pc |-> "start", now |-> 0, NEWS_SCHEDULE |-> <<>>, xai |-> "ready",
     cache |-> PyNone, news |-> PyDict(<<>>),
     failed |-> FALSE, failed_before |-> FALSE] @@ WdUnassigned

\* lines 934-937: main: ensure_xai_api_key, load_settings, then dashboard
wd_main(s, xai, config, cache) ==
    [s EXCEPT !.pc = "top", !.xai = xai, !.cache = cache,
              !.NEWS_SCHEDULE = load_settings(config)]

\* lines 895-910: now, then news = get_news(now, force=False) inside the
\* try of the loop (weather and draw do not touch the news state)
wd_poll(s, now, outcome) ==
    LET r == get_news(s.NEWS_SCHEDULE, s.cache, s.xai, now, FALSE, outcome)
    IN  [s EXCEPT !.pc = "key",
                  !.now = now,
                  !.key = "",
                  !.news = r.news,
                  !.cache_in = s.cache,
                  !.cache = r.cache,
                  !.last_fetch_dt = r.last_fetch_dt,
                  !.due = r.due,
                  !.fetched = r.fetched,
                  !.stored = r.stored,
                  !.failed_before = s.failed,
                  !.failed = r.fetched /\ ~r.stored]

\* lines 913-930: the key check: q or Q leaves the loop; r or R refreshes
\* the stocks (stocks: whether refresh_stocks_cache returns) and then forces
\* get_news; s or S opens the settings screen; then time.sleep(1)
wd_key(s, key, stocks, outcome, new_schedule_input) ==
    LET r == get_news(s.NEWS_SCHEDULE, s.cache, s.xai, s.now, TRUE, outcome)
    IN  IF key \in {"q", "Q"}
        THEN [s EXCEPT !.pc = "done", !.key = key]
        ELSE IF key \in {"r", "R"}
        THEN IF ~stocks
             THEN [s EXCEPT !.pc = "top", !.key = key,
                            !.news = NewsError("stocks")]
             ELSE [s EXCEPT !.pc = "top", !.key = key,
                            !.news = r.news,
                            !.cache = r.cache,
                            !.failed = IF r.fetched THEN ~r.stored
                                       ELSE s.failed]
        ELSE IF key \in {"s", "S"}
        THEN [s EXCEPT !.pc = "top", !.key = key,
                       !.NEWS_SCHEDULE =
                           settings_screen(s.NEWS_SCHEDULE, new_schedule_input)]
        ELSE [s EXCEPT !.pc = "top", !.key = key]

VARIABLES
    dash,        \* the frame of dashboard: its position and its locals
    twin,        \* a second run of dashboard, on the same local host
    local_host,  \* which sample the local kernel last showed (0: none yet)
    cu,          \* one line of /proc/stat and what cpu_usage makes of it
    pn,          \* one call of build_panel_lines and what it returned
    call,        \* one call of a reader or a formatter and what it returned
    wd           \* the world-status dashboard: its loop, schedule and cache

vars == <<dash, twin, local_host, cu, pn, call, wd>>

\* the render loop and its host
loop_vars == <<dash, twin, local_host>>

\* the functions called on their own, and the other program
pure_vars == <<cu, pn, call, wd>>

\* the ten counters of a line of /proc/stat right after a boot
ZeroCounters == <<0, 0, 0, 0, 0, 0, 0, 0, 0, 0>>

\* cu before any sample of the line was compared: prev the counters of the
\* earlier sample, curr those of the later one, ticks how many changes the
\* kernel made in between, usage the last result of cpu_usage (done: there
\* is one)
CuStart(counters) ==
    [prev |-> counters, curr |-> counters, ticks |-> 0,
     done |-> FALSE, usage |-> Zero]

\* pn before any call: the metrics, title and width given, the lines
\* returned (built: there was a call), and for a width the render loop
\* derived from a terminal, that terminal's width (else -1)
PnStart ==
    [metrics |-> <<>>, title |-> "", width |-> 0, lines |-> <<>>,
     built |-> FALSE, term_width |-> -1]

\* call before any function was called: fn the function ("" for none), args
\* what it was given, raised whether an exception left it, result what it
\* returned
NoCall == [fn |-> "", args |-> <<>>, raised |-> FALSE, result |-> <<>>]

\* call after fn(args) returned result
Returned(fn, args, result) ==
    [fn |-> fn, args |-> args, raised |-> FALSE, result |-> result]

\* call after an exception left fn(args)
Raised(fn, args, exc) ==
    [fn |-> fn, args |-> args, raised |-> TRUE, result |-> exc]

Init ==
    /\ dash = Entered
    /\ twin = Entered
    /\ local_host = 0
    /\ cu = CuStart(ZeroCounters)
    /\ pn = PnStart
    /\ call = NoCall
    /\ wd = WdStart

PollLocal ==
    /\ dash.pc = "poll"
    /\ \E t \in Times, src \in LocalSources(local_host) :
         /\ dash' = poll_local(dash, t, src)
         /\ local_host' = IF src.status = "ok" THEN src.sample ELSE local_host
    /\ UNCHANGED <<twin, pure_vars>>

PollRemote ==
    /\ dash.pc = "remote"
    /\ \E run \in RunOutcomes : dash' = poll_remote(dash, run)
    /\ UNCHANGED <<twin, local_host, pure_vars>>

Paint ==
    /\ dash.pc = "paint"
    /\ \E sz \in TermSizes : dash' = paint(dash, sz)
    /\ UNCHANGED <<twin, local_host, pure_vars>>

GetKey ==
    /\ dash.pc = "key"
    /\ \E k \in Keys : dash' = get_key(dash, k)
    /\ UNCHANGED <<twin, local_host, pure_vars>>

Sleep ==
    /\ dash.pc = "sleep"
    /\ dash' = sleep(dash)
    /\ UNCHANGED <<twin, local_host, pure_vars>>

Next == PollLocal \/ PollRemote \/ Paint \/ GetKey \/ Sleep

Spec == Init /\ [][Next]_vars

\* ------------------------------------------------ two runs, side by side

\* Two runs of dashboard on the same local host: both read the same clock,
\* the same local sources, the same terminal size and the same keys, and
\* each gets its own outcome of the remote call.  A run whose program has
\* ended stays as it is while the other goes on.

\* the remote outcomes the two runs draw from: one of each kind
PairRuns ==
    { [kind |-> "oserror"], [kind |-> "timeout"],
      Completed(255, "", ""), Completed(0, "", ""),
      Completed(0, "[1]", ""), Completed(0, "<sample 2>", "") }

\* s after step(s) when s is at position at, else s unchanged
At(s, at, stepped) == IF s.pc = at THEN stepped ELSE s

PairPollLocal ==
    /\ "poll" \in {dash.pc, twin.pc}
    /\ \E t \in Times, src \in LocalSources(local_host) :
         /\ dash' = At(dash, "poll", poll_local(dash, t, src))
         /\ twin' = At(twin, "poll", poll_local(twin, t, src))
         /\ local_host' = IF src.status = "ok" THEN src.sample ELSE local_host
    /\ UNCHANGED pure_vars

PairPollRemote ==
    /\ "remote" \in {dash.pc, twin.pc}
    /\ \E run1 \in PairRuns, run2 \in PairRuns :
         /\ dash' = At(dash, "remote", poll_remote(dash, run1))
         /\ twin' = At(twin, "remote", poll_remote(twin, run2))
    /\ UNCHANGED <<local_host, pure_vars>>

PairPaint ==
    /\ "paint" \in {dash.pc, twin.pc}
    /\ \E sz \in TermSizes :
         /\ dash' = At(dash, "paint", paint(dash, sz))
         /\ twin' = At(twin, "paint", paint(twin, sz))
    /\ UNCHANGED <<local_host, pure_vars>>

PairGetKey ==
    /\ "key" \in {dash.pc, twin.pc}
    /\ \E k \in Keys :
         /\ dash' = At(dash, "key", get_key(dash, k))
         /\ twin' = At(twin, "key", get_key(twin, k))
    /\ UNCHANGED <<local_host, pure_vars>>

PairSleep ==
    /\ "sleep" \in {dash.pc, twin.pc}
    /\ dash' = At(dash, "sleep", sleep(dash))
    /\ twin' = At(twin, "sleep", sleep(twin))
    /\ UNCHANGED <<local_host, pure_vars>>

PairNext == PairPollLocal \/ PairPollRemote \/ PairPaint \/ PairGetKey \/ PairSleep

SpecPair == Init /\ [][PairNext]_vars

\* ------------------------------------------------ cpu_usage on its own

\* how many counter changes lie between the two samples of a line
MaxTicks == 3

\* by how much the kernel raises a counter in one change
Quanta == {50, 100}

\* the earlier sample of the line: a fresh boot, the aggregate line of
\* host sample 1, or a line sampled early after a boot, all of it busy time
CuBases ==
    {ZeroCounters, HostSample(1)["cpu_lines"][1][2],
     <<50, 0, 0, 0, 0, 0, 0, 0, 0, 0>>}

CuInit ==
    /\ dash = Entered
    /\ twin = Entered
    /\ local_host = 0
    /\ \E base \in CuBases : cu = CuStart(base)
    /\ pn = PnStart
    /\ call = NoCall
    /\ wd = WdStart

\* the kernel adds q ticks to counter i
CuTick ==
    /\ cu.ticks < MaxTicks
    /\ \E i \in 1..10, q \in Quanta :
         cu' = [cu EXCEPT !.curr[i] = @ + q, !.ticks = @ + 1, !.done = FALSE]
    /\ UNCHANGED <<loop_vars, wd, pn, call>>

\* the counters start again from zero (a reboot between the two samples)
CuReset ==
    /\ cu.ticks < MaxTicks
    /\ cu.curr # ZeroCounters
    /\ cu' = [cu EXCEPT !.curr = ZeroCounters, !.ticks = @ + 1, !.done = FALSE]
    /\ UNCHANGED <<loop_vars, wd, pn, call>>

\* cpu_usage(prev, curr) is called
CuUsage ==
    /\ ~cu.done
    /\ cu' = [cu EXCEPT !.usage = cpu_usage(cu.prev, cu.curr), !.done = TRUE]
    /\ UNCHANGED <<loop_vars, wd, pn, call>>

CuNext == CuTick \/ CuReset \/ CuUsage

SpecCpu == CuInit /\ [][CuNext]_vars

\* ---------------------------------------- build_panel_lines on its own

\* the widest panel asked for
MaxWidth == 90

\* the samples a panel is built for: the three of the loop's hosts and the
\* larger one
PanelSamples == Samples \cup {4}

\* a previous state: none, or the one stored after sample j at time t
PrevStates ==
    { <<>> } \cup { previous_state(HostSample(j), t) : j \in PanelSamples, t \in Times }

\* build_panel_lines(compute_metrics(raw, prev, now), title, width) for a
\* width of the caller's choice
PnBuild ==
    /\ ~pn.built
    /\ \E i \in PanelSamples, prev \in PrevStates, t \in Times, w \in 0..MaxWidth,
          remote \in BOOLEAN :
         LET metrics == compute_metrics(IF remote THEN RemoteDoc(i) ELSE HostSample(i),
                                        prev, t)
             title   == IF remote THEN "REMOTE" ELSE "LOCAL"
         IN  pn' = [metrics |-> metrics, title |-> title, width |-> w,
                    lines |-> build_panel_lines(metrics, title, w),
                    built |-> TRUE, term_width |-> -1]
    /\ UNCHANGED <<loop_vars, wd, cu, call>>

\* the same for the width the render loop passes on a terminal tw columns
\* wide (lines 624-630: tw - 1 on a narrow terminal, else the column width)
PnBuildForTerminal ==
    /\ ~pn.built
    /\ \E i \in PanelSamples, prev \in PrevStates, t \in Times, tw \in 1..MaxWidth :
         LET metrics == compute_metrics(HostSample(i), prev, t)
         IN  pn' = [metrics |-> metrics, title |-> "LOCAL",
                    width |-> panel_width(tw),
                    lines |-> build_panel_lines(metrics, "LOCAL", panel_width(tw)),
                    built |-> TRUE, term_width |-> tw]
    /\ UNCHANGED <<loop_vars, wd, cu, call>>

PnNext == PnBuild \/ PnBuildForTerminal

SpecPanel == Init /\ [][PnNext]_vars

\* ------------------------------------------- the readers on their own

\* the longest text a source holds, in lines
MaxLines == 3

\* every text of at most MaxLines lines drawn from pool
Texts(pool) == UNION { [1..k -> pool] : k \in 0..MaxLines }

\* a source: unreadable, or readable with one of the texts
Sources(pool) == { Unreadable } \cup { Readable(t) : t \in Texts(pool) }

\* lines of /proc/stat: the aggregate line, a core, a core with a field that
\* is no number, a line with the label alone, a line that is no cpu line
StatLines ==
    {"cpu  100 0 50 800 50 0 0 0 0 0", "cpu0 50 0 25 400 25 0 0 0 0 0",
     "cpu1 5 0 x 40 0 0 0 0 0 0", "cpu2", "intr 4242"}

\* lines of /proc/meminfo: two fields, a line without a colon, a value that
\* is no number, a field without a value
MeminfoLines ==
    {"MemTotal:       1000 kB", "MemFree:         200 kB", "garbage",
     "SwapFree: n/a kB", "Cached:"}

LoadavgLines == {"0.10 0.20 0.30 1/100 123", "0.10 0.20", ""}

UptimeLines == {"3661.00 1000.00", "12.5", "up 3 days", ""}

\* the two header lines of /proc/net/dev
NetHeader == <<"Inter-|   Receive                |  Transmit", " face |bytes packets"  >>

\* lines of /proc/net/dev: two interfaces, a line with too few fields, a
\* line without a colon, a counter that is no number
NetLines ==
    {"    lo: 100 1 0 0 0 0 0 0 100 1 0 0 0 0 0 0",
     "  eth0: 5000 9 0 0 0 0 0 0 7000 9 0 0 0 0 0 0",
     " wlan0: 1 2 3", "no colon here",
     "  usb0: x 1 0 0 0 0 0 0 7 1 0 0 0 0 0 0"}

\* lines of /proc/diskstats: two disks, a loop device, a line with too few
\* fields, a counter that is no number
DiskLines ==
    {"   8  0 sda 5 0 10 0 5 0 20 0 0 0 0",
     " 179  0 mmcblk0 9 0 30 0 4 0 40 0 0 0 0",
     "   7  0 loop0 1 0 2 0 0 0 0 0 0 0 0",
     "   8 16 sdb 1 0",
     "   8 32 sdc 1 0 x 0 1 0 2 0 0 0 0"}

\* lines of /proc/mounts: real filesystems (two of them on /mnt/usb), pseudo
\* filesystems (one of them on /), a line with too few fields
MountLines ==
    {"/dev/root / ext4 rw 0 0", "overlay / overlay rw 0 0",
     "proc /proc proc rw 0 0", "tmpfs /run tmpfs rw 0 0",
     "/dev/sda1 /mnt/usb vfat rw 0 0", "/dev/sdb1 /mnt/usb ext4 rw 0 0",
     "/dev/mmcblk0p1 /boot vfat rw 0 0", "none"}

\* call after reader fn read file
Read(fn, file, r) ==
    IF r.ok THEN Returned(fn, file, r.v) ELSE Raised(fn, file, r.exc)

ReadCpuLines ==
    /\ call = NoCall
    /\ \E file \in Sources(StatLines) :
         call' = Read("read_cpu_lines", file, read_cpu_lines(file))
    /\ UNCHANGED <<loop_vars, wd, cu, pn>>

ReadMeminfo ==
    /\ call = NoCall
    /\ \E file \in Sources(MeminfoLines) :
         call' = Read("read_meminfo", file, read_meminfo(file))
    /\ UNCHANGED <<loop_vars, wd, cu, pn>>

ReadLoadavg ==
    /\ call = NoCall
    /\ \E file \in Sources(LoadavgLines) :
         call' = Read("read_loadavg", file, read_loadavg(file))
    /\ UNCHANGED <<loop_vars, wd, cu, pn>>

ReadUptimeSeconds ==
    /\ call = NoCall
    /\ \E file \in Sources(UptimeLines) :
         call' = Read("read_uptime_seconds", file, read_uptime_seconds(file))
    /\ UNCHANGED <<loop_vars, wd, cu, pn>>

ReadNetBytes ==
    /\ call = NoCall
    /\ \E src \in Sources(NetLines) :
         LET file == IF src.readable THEN Readable(NetHeader \o src.lines) ELSE src
         IN  call' = Read("read_net_bytes", file, read_net_bytes(file))
    /\ UNCHANGED <<loop_vars, wd, cu, pn>>

ReadDiskstats ==
    /\ call = NoCall
    /\ \E file \in Sources(DiskLines) :
         call' = Read("read_diskstats", file, read_diskstats(file))
    /\ UNCHANGED <<loop_vars, wd, cu, pn>>

ListMounts ==
    /\ call = NoCall
    /\ \E file \in Sources(MountLines) :
         call' = Read("list_mounts", file, list_mounts(file))
    /\ UNCHANGED <<loop_vars, wd, cu, pn>>

ReadersNext ==
    \/ ReadCpuLines
    \/ ReadMeminfo
    \/ ReadLoadavg
    \/ ReadUptimeSeconds
    \/ ReadNetBytes
    \/ ReadDiskstats
    \/ ListMounts

SpecReaders == Init /\ [][ReadersNext]_vars

\* ---------------------------------------- the formatters on their own

\* the widest bar asked for; build_panel_lines asks for 8 to 30 cells
MaxBarWidth == 30

\* the values a bar is drawn for: -10.0 to 150.0 in steps of a half
BarValues == { Rat(k, 2) : k \in -20..300 }

\* the numbers fmt_bytes is given: sizes around the unit thresholds, small
\* sizes and rates of either sign in steps of a quarter, and larger ones
ByteCounts ==
    { Rat(k, 4) : k \in -200..200 }
    \cup { Rat(k, 1) : k \in {1023, 1024, 1025, 1536, 1048575, 1048576, 1073741824,
                             -1024, -2048, -1048576} }

\* the days, hours, minutes, seconds and hundredths a duration is made of
DurationDays == {0, 1, 2, 142}

DurationHours == {0, 1, 23}

DurationMinutes == {0, 1, 59}

DurationSeconds == {0, 1, 59}

DurationHundredths == {0, 99}

DrawBar ==
    /\ call = NoCall
    /\ \E value \in BarValues, width \in 0..MaxBarWidth :
         call' = Returned("draw_bar", [value |-> value, width |-> width],
                          draw_bar(value, width))
    /\ UNCHANGED <<loop_vars, wd, cu, pn>>

FmtBytes ==
    /\ call = NoCall
    /\ \E num \in ByteCounts :
         call' = Returned("fmt_bytes", [num |-> num], fmt_bytes(num))
    /\ UNCHANGED <<loop_vars, wd, cu, pn>>

FmtDuration ==
    /\ call = NoCall
    /\ \E d \in DurationDays, h \in DurationHours, mi \in DurationMinutes,
          sec \in DurationSeconds, f \in DurationHundredths :
         LET hundredths == (d * 86400 + h * 3600 + mi * 60 + sec) * 100 + f
         IN  call' = Returned("fmt_duration",
                              [hundredths |-> hundredths, days |-> d, hours |-> h,
                               minutes |-> mi, seconds |-> sec],
                              fmt_duration(hundredths))
    /\ UNCHANGED <<loop_vars, wd, cu, pn>>

FormatNext == DrawBar \/ FmtBytes \/ FmtDuration

SpecFormat == Init /\ [][FormatNext]_vars

\* ------------------------------------------ compute_metrics on its own

\* the keys of a raw snapshot (disk_usage: of a remote one only)
RawKeys ==
    {"cpu_lines", "meminfo", "loadavg", "uptime", "net_bytes", "diskstats",
     "mounts", "temps", "top_cpu", "top_mem", "disk_usage"}

\* the key sets a snapshot is cut down to: all keys, all but one, one alone,
\* none
KeptKeys ==
    { RawKeys } \cup { RawKeys \ {k} : k \in RawKeys }
    \cup { {k} : k \in RawKeys } \cup { {} }

\* the function d without the keys outside keys
Restrict(d, keys) == [k \in DOMAIN d \cap keys |-> d[k]]

\* the raw snapshots compute_metrics is given: sample i of a local or a
\* remote host, cut down to the keys kept, and its meminfo to some of its
\* fields
RawSnapshots ==
    { LET doc == Restrict(IF remote THEN RemoteDoc(i) ELSE HostSample(i), keys)
      IN  IF "meminfo" \in DOMAIN doc
          THEN [doc EXCEPT !["meminfo"] = Restrict(@, fields)]
          ELSE doc :
        i \in PanelSamples, remote \in BOOLEAN, keys \in KeptKeys,
        fields \in SUBSET {"MemTotal", "MemFree", "MemAvailable",
                           "SwapTotal", "SwapFree"} }

ComputeMetrics ==
    /\ call = NoCall
    /\ \E raw \in RawSnapshots, prev \in PrevStates, now \in Times :
         call' = Returned("compute_metrics",
                          [raw |-> raw, prev |-> prev, now |-> now],
                          compute_metrics(raw, prev, now))
    /\ UNCHANGED <<loop_vars, wd, cu, pn>>

MetricsNext == ComputeMetrics

SpecMetrics == Init /\ [][MetricsNext]_vars

\* ------------------------------------------- the world-status loop, alone

\* the clock readings of the loop, in minutes: 05:00, 06:00, 12:30, 20:00
\* and 23:59 of the day the program is started, 00:00, 06:00 and 12:00 of
\* the day after
NewsInstants == {300, 360, 750, 1200, 1439, 1440, 1800, 2160}

\* config.json as load_config returns it: no file, a schedule string, a
\* schedule list with nothing that parses
ConfigFiles ==
    { <<>>,
      [k \in {"news_schedule"} |-> PyStr("23:59, 6:00")],
      [k \in {"news_schedule"} |-> PyList(<<"noon", "24:00">>)] }

\* .cache/news.json when the program starts: no file, a result fetched at
\* 04:00, a file whose fetched_at does not parse
NewsCaches ==
    { PyNone, NewsData(240), PyDict([k \in {"fetched_at"} |-> "yesterday"]) }

\* what the user types for the schedule on the settings screen
ScheduleInputs == {"", "12:00", "7:60, x"}

\* what stdscr.getkey() returns in the world-status loop ("" for none)
WdKeys == {"", "q", "r", "s"}

WdMain ==
    /\ wd.pc = "start"
    /\ \E xai \in XaiSetups, config \in ConfigFiles, cache \in NewsCaches :
         wd' = wd_main(wd, xai, config, cache)
    /\ UNCHANGED <<loop_vars, cu, pn, call>>

WdPoll ==
    /\ wd.pc = "top"
    /\ \E now \in NewsInstants, outcome \in FetchOutcomes :
         /\ now >= wd.now
         /\ wd' = wd_poll(wd, now, outcome)
    /\ UNCHANGED <<loop_vars, cu, pn, call>>

WdKey ==
    /\ wd.pc = "key"
    /\ \E key \in WdKeys, stocks \in BOOLEAN, outcome \in FetchOutcomes,
          new_schedule_input \in ScheduleInputs :
         wd' = wd_key(wd, key, stocks, outcome, new_schedule_input)
    /\ UNCHANGED <<loop_vars, cu, pn, call>>

NewsNext == WdMain \/ WdPoll \/ WdKey

SpecNews == Init /\ [][NewsNext]_vars

\* ================================================================ claims

\* the program has ended: by the quit key or by an exception
Ended(s) == s.pc \in {"done", "crashed"}

\* the frame of the current cycle has been painted
Painted(s) == s.pc \in {"key", "sleep", "done"}

\* the result pair the remote bridge contract gives for an outcome of the
\* remote execution; an outcome the contract has no pair for gives <<>>
ContractPair(run) ==
    IF run.kind = "timeout"
    THEN <<PyNone, PyStr("ssh timeout")>>
    ELSE IF run.kind # "completed"
    THEN <<>>
    ELSE IF run.returncode # 0
    THEN <<PyNone, PyStr(IF strip(run.stderr) = "" THEN "ssh failed"
                         ELSE strip(run.stderr))>>
    ELSE IF run.stdout \notin DOMAIN JsonDocs
    THEN <<PyNone, PyStr("invalid remote data")>>
    ELSE <<JsonDocs[run.stdout], PyNone>>

\* C1: every call of ssh_remote_raw returns, and returns the pair the
\* contract gives for the outcome: timeout, then non-zero exit (trimmed
\* stderr or "ssh failed"), then unparsable stdout, then the parsed document.
C1_BridgeContract ==
    dash.ssh_call # "" =>
        /\ dash.ssh_call = "returned"
        /\ <<dash.remote_raw, dash.remote_err>> = ContractPair(dash.run)

\* C2: the loop has ended only if a quit key was observed.
C2_OnlyQuitEnds ==
    Ended(dash) => dash.key \in {"q", "Q"}

\* C3: two runs that see the same local snapshots, clock and terminal size
\* and different remote outcomes paint the same local panel and store the
\* same local previous state in every cycle.
C3_LocalPanelIndependent ==
    (Painted(dash) \/ Painted(twin)) =>
        /\ dash.local_lines = twin.local_lines
        /\ dash.prev_local = twin.prev_local

\* sum of curr[i] - prev[i] over the ten counters
CuTotalDelta ==
    LET d(i) == cu.curr[i] - cu.prev[i]
    IN  d(1) + d(2) + d(3) + d(4) + d(5) + d(6) + d(7) + d(8) + d(9) + d(10)

\* the change of idle (index 3) plus the change of iowait (index 4)
CuIdleDelta == (cu.curr[4] - cu.prev[4]) + (cu.curr[5] - cu.prev[5])

\* C4: cpu_usage is exactly 0.0 when total_delta <= 0, and otherwise
\* (total_delta - idle_delta) / total_delta * 100; a total increase of 200
\* with an idle + iowait increase of 150 gives 25.0.
C4_CpuUsage ==
    cu.done =>
        /\ CuTotalDelta <= 0 => cu.usage = Zero
        /\ CuTotalDelta > 0 =>
             /\ cu.usage.d > 0
             /\ cu.usage.n * CuTotalDelta
                  = (CuTotalDelta - CuIdleDelta) * 100 * cu.usage.d
        /\ (CuTotalDelta = 200 /\ CuIdleDelta = 150) => cu.usage = [n |-> 25, d |-> 1]

\* C4 witness: the result for a total increase of 200 with idle + iowait
\* up by 150, both idle and iowait having moved
C4_Witness ==
    /\ cu.done
    /\ CuTotalDelta = 200
    /\ CuIdleDelta = 150
    /\ cu.curr[4] > cu.prev[4]
    /\ cu.curr[5] > cu.prev[5]

\* the local metrics of the current cycle have been computed
LocalComputed(s) == s.local_metrics # <<>>

\* the remote metrics of the current cycle have been computed
RemoteComputed(s) == s.remote_metrics.t = "dict"

\* m is what a first sample raw must give: every cpu line present with 0.0,
\* no rates, and memory, swap, load, uptime and temperatures from raw
FirstSampleMetrics(raw, m) ==
    LET mem   == raw["meminfo"]
        avail == IF "MemAvailable" \in DOMAIN mem THEN mem["MemAvailable"]
                 ELSE mem["MemFree"]
    IN  /\ Len(m.cpu_pcts) = Len(raw["cpu_lines"])
        /\ \A i \in 1..Len(raw["cpu_lines"]) :
               m.cpu_pcts[i] = <<raw["cpu_lines"][i][1], [n |-> 0, d |-> 1]>>
        /\ m.net_rates = <<>>
        /\ m.disk_rates = <<>>
        /\ m.mem_total = mem["MemTotal"] * 1024
        /\ m.mem_used = Max((mem["MemTotal"] - avail) * 1024, 0)
        /\ m.swap_total = mem["SwapTotal"] * 1024
        /\ m.swap_used = Max((mem["SwapTotal"] - mem["SwapFree"]) * 1024, 0)
        /\ m.loadavg = raw["loadavg"]
        /\ m.uptime = raw["uptime"]
        /\ m.temps = raw["temps"]

\* C5: on a cycle with no previous state for a host, the metrics hold every
\* cpu line of the raw snapshot with 0.0, empty network and disk rates, and
\* memory, swap, load average, uptime and temperatures of the one sample.
C5_FirstCycleMetrics ==
    /\ (LocalComputed(dash) /\ dash.prev_local_in = <<>>) =>
           FirstSampleMetrics(dash.local_raw, dash.local_metrics)
    /\ (RemoteComputed(dash) /\ dash.prev_remote_in = <<>>
            /\ "cpu_lines" \in DOMAIN dash.remote_raw.v) =>
           FirstSampleMetrics(dash.remote_raw.v, dash.remote_metrics.v)

\* C5 witness: the first cycle of both hosts, each with several cpu lines
\* and non-zero counters
C5_Witness ==
    /\ dash.pc = "paint"
    /\ dash.prev_local_in = <<>>
    /\ Len(dash.local_metrics.cpu_pcts) >= 2
    /\ RemoteComputed(dash)
    /\ dash.prev_remote_in = <<>>
    /\ Len(dash.remote_metrics.v.cpu_pcts) >= 3
    /\ dash.local_metrics.mem_used > 0

\* the elapsed time the rates divide by, in milliseconds: now minus the
\* stored timestamp, and 1 ms (0.001 s) when that is smaller
ClampedElapsed(prev, now) ==
    IF now - prev["time"] < 1 THEN 1 ELSE now - prev["time"]

\* r is delta per second over the elapsed milliseconds ms
IsRate(r, delta, ms) ==
    /\ r.d > 0
    /\ r.n * ms = delta * 1000 * r.d

\* the rates of m are those of raw against prev at time now, for every name
\* both samples hold
RatesAsClaimed(raw, prev, now, m) ==
    /\ \A iface \in DOMAIN m.net_rates :
         /\ m.net_rates[iface][1].d > 0
         /\ m.net_rates[iface][2].d > 0
         /\ iface \in DOMAIN prev["net_bytes"] =>
              \A k \in 1..2 :
                  IsRate(m.net_rates[iface][k],
                         raw["net_bytes"][iface][k] - prev["net_bytes"][iface][k],
                         ClampedElapsed(prev, now))
    /\ \A dev \in DOMAIN m.disk_rates :
         /\ m.disk_rates[dev][1].d > 0
         /\ m.disk_rates[dev][2].d > 0
         /\ dev \in DOMAIN prev["diskstats"] =>
              \A k \in 1..2 :
                  IsRate(m.disk_rates[dev][k],
                         (raw["diskstats"][dev][k] - prev["diskstats"][dev][k]) * 512,
                         ClampedElapsed(prev, now))

\* C6: every network and disk rate is the counter delta (sectors times 512
\* for disks) divided by the time since the stored timestamp, clamped to at
\* least 0.001 s, so a zero or negative elapsed time divides by 0.001.
C6_RatesClamped ==
    /\ LocalComputed(dash) =>
           RatesAsClaimed(dash.local_raw, dash.prev_local_in, dash.now,
                          dash.local_metrics)
    /\ RemoteComputed(dash) =>
           RatesAsClaimed(dash.remote_raw.v, dash.prev_remote_in, dash.now,
                          dash.remote_metrics.v)

\* C6 witness: a remote sample taken at the very timestamp of the stored
\* one, with a disk that read sectors in between
C6_Witness ==
    /\ RemoteComputed(dash)
    /\ dash.prev_remote_in # <<>>
    /\ dash.now = dash.prev_remote_in["time"]
    /\ \E dev \in DOMAIN dash.remote_metrics.v.disk_rates :
         /\ dev \in DOMAIN dash.prev_remote_in["diskstats"]
         /\ dash.remote_metrics.v.disk_rates[dev][1].n > 0

\* names of the table cur that the table old does not hold
NewNames(cur, old) == DOMAIN cur \ DOMAIN old

\* the rate r is 0.0
IsZeroRate(r) == r.n = 0 /\ r.d > 0

\* every name that is new in raw's table gets the rate 0 in both directions
NewNamesGetZero(raw, prev, rates, table) ==
    \A name \in NewNames(Get(raw, table, <<>>), prev[table]) :
        /\ name \in DOMAIN rates
        /\ IsZeroRate(rates[name][1])
        /\ IsZeroRate(rates[name][2])

\* C7 as stated: when a previous sample exists, an interface or device of
\* the current snapshot that the previous sample lacks gets rate 0 in both
\* directions.
C7_NewNameRateZero_AsStated ==
    (LocalComputed(dash) /\ dash.prev_local_in # <<>>) =>
        /\ NewNamesGetZero(dash.local_raw, dash.prev_local_in,
                           dash.local_metrics.net_rates, "net_bytes")
        /\ NewNamesGetZero(dash.local_raw, dash.prev_local_in,
                           dash.local_metrics.disk_rates, "diskstats")

\* the amended statement for one table of one host
NewNamesAmended(raw, prev, rates, table) ==
    IF prev[table] = <<>>
    THEN rates = <<>>
    ELSE NewNamesGetZero(raw, prev, rates, table)

\* C7 amended: when the previous sample's table (interfaces, devices) is not
\* empty, a name of the current snapshot that it lacks gets rate 0 in both
\* directions; when that table is empty no rate is reported for the table.
C7_NewNameRateZero ==
    /\ (LocalComputed(dash) /\ dash.prev_local_in # <<>>) =>
        /\ NewNamesAmended(dash.local_raw, dash.prev_local_in,
                           dash.local_metrics.net_rates, "net_bytes")
        /\ NewNamesAmended(dash.local_raw, dash.prev_local_in,
                           dash.local_metrics.disk_rates, "diskstats")
    /\ (RemoteComputed(dash) /\ dash.prev_remote_in # <<>>) =>
        /\ NewNamesAmended(dash.remote_raw.v, dash.prev_remote_in,
                           dash.remote_metrics.v.net_rates, "net_bytes")
        /\ NewNamesAmended(dash.remote_raw.v, dash.prev_remote_in,
                           dash.remote_metrics.v.disk_rates, "diskstats")

\* C7 witness: a device with non-zero counters appears next to one the
\* previous sample already held
C7_Witness ==
    /\ RemoteComputed(dash)
    /\ dash.prev_remote_in # <<>>
    /\ "diskstats" \in DOMAIN dash.remote_raw.v
    /\ dash.prev_remote_in["diskstats"] # <<>>
    /\ \E dev \in NewNames(dash.remote_raw.v["diskstats"],
                           dash.prev_remote_in["diskstats"]) :
         dash.remote_raw.v["diskstats"][dev] # <<0, 0>>

\* C8: every line build_panel_lines returns is at most width characters
\* long, for every metrics value and every width of 0 columns or more, the
\* widths the render loop derives from a terminal included.
C8_LinesWithinWidth ==
    pn.built => \A i \in 1..Len(pn.lines) : Len(pn.lines[i]) <= pn.width

\* C8 witness: on a narrow terminal the loop passes the terminal width
\* minus one, and a line had to be cut to it
C8_Witness ==
    /\ pn.built
    /\ pn.term_width > 1
    /\ pn.width = pn.term_width - 1
    /\ \E i \in 1..Len(pn.lines) :
         /\ Len(pn.lines[i]) = pn.width
         /\ Len(build_panel_lines(pn.metrics, pn.title, 2 * MaxWidth)[i]) > pn.width

\* the phases of the render loop: Polling is collect, compute and paint,
\* Idle-wait is the key check and the sleep
Polling(s) == s.pc \in {"poll", "remote", "paint"}

IdleWait(s) == s.pc \in {"key", "sleep"}

\* a quit key has been observed
QuitSeen(s) == s.key \in {"q", "Q"}

\* C9: the loop alternates Polling and Idle-wait: a Polling phase goes on
\* through collect, compute and paint into Idle-wait, Idle-wait returns to
\* Polling unless a quit key was observed, and the loop ends only from
\* Idle-wait with a quit key observed, never in the middle of a cycle.
C9_PhasesAlternate ==
    [][ /\ dash.pc = "poll" => dash'.pc = "remote"
        /\ dash.pc = "remote" => dash'.pc = "paint"
        /\ dash.pc = "paint" => dash'.pc = "key"
        /\ dash.pc = "key" =>
               dash'.pc = IF QuitSeen(dash') THEN "done" ELSE "sleep"
        /\ dash.pc = "sleep" => dash'.pc = "poll"
        /\ (Ended(dash') /\ ~Ended(dash)) => (IdleWait(dash) /\ QuitSeen(dash'))
      ]_dash

\* C10 as stated: once a cycle has painted, the previous state of each host
\* holds that cycle's cpu, network and disk counters and its timestamp.
C10_PrevOverwritten_AsStated ==
    Painted(dash) =>
        /\ dash.prev_local = previous_state(dash.local_raw, dash.now)
        /\ dash.remote_raw.t = "dict"
        /\ dash.prev_remote = previous_state(dash.remote_raw.v, dash.now)

\* C10 amended: the loop holds one previous state per host; the local one is
\* overwritten with the cycle's counters and timestamp in every cycle whose
\* local collection returns, the remote one is overwritten with the cycle's
\* counters and timestamp when the remote call returned a non-empty document
\* and is left as it was when the call returned none; no other step of the
\* loop changes either.
C10_PrevOverwritten ==
    [][ /\ (dash.pc = "poll" /\ dash'.pc = "remote") =>
               /\ dash'.prev_local = previous_state(dash'.local_raw, dash'.now)
               /\ dash'.prev_remote = dash.prev_remote
        /\ (dash.pc = "remote" /\ dash'.pc = "paint") =>
               /\ dash'.prev_local = dash.prev_local
               /\ IF TruthyVal(dash'.remote_raw)
                  THEN dash'.prev_remote =
                           previous_state(dash'.remote_raw.v, dash.now)
                  ELSE dash'.prev_remote = dash.prev_remote
        /\ (dash.pc \notin {"poll", "remote"} \/ Ended(dash')) =>
               /\ dash'.prev_local = dash.prev_local
               /\ dash'.prev_remote = dash.prev_remote
      ]_dash

\* C10 witness: a cycle was painted whose remote call gave no document, and
\* the remote previous state is still the one an earlier cycle stored
C10_Witness ==
    /\ Painted(dash)
    /\ ~TruthyVal(dash.remote_raw)
    /\ dash.prev_remote # <<>>
    /\ dash.prev_remote["time"] # dash.now
    /\ dash.prev_local["time"] = dash.now

\* the Counter Reader operations
CounterReaders ==
    {"read_cpu_lines", "read_meminfo", "read_loadavg", "read_uptime_seconds",
     "read_net_bytes", "read_diskstats", "list_mounts"}

\* C11: every Counter Reader operation returns a value and never raises,
\* whether its source is unreadable or holds a line with missing fields or
\* with a field that is no number.
C11_ReadersNeverRaise ==
    call.fn \in CounterReaders => ~call.raised

\* the fields of line i of the text a reader was given
FieldsOf(lines, i) == split(lines[i])

\* line i of a mount table names a mount path and a type
IsMountLine(lines, i) == Len(FieldsOf(lines, i)) >= 3

\* line i is a mount line whose type is not of the exclusion set
IsKeptType(lines, i) ==
    IsMountLine(lines, i) /\ FieldsOf(lines, i)[3] \notin SKIP_FS

\* the place of mount path p in the sorted order of the paths
PathRank(p) == CHOOSE i \in 1..Len(PathOrder) : PathOrder[i] = p

\* res is sorted by mount path with no path twice and no excluded type
SortedUniqueNoPseudo(res) ==
    /\ \A i \in 1..Len(res), j \in 1..Len(res) :
           i < j => PathRank(res[i][1]) < PathRank(res[j][1])
    /\ \A i \in 1..Len(res) : res[i][2] \notin SKIP_FS

\* C16 as stated: list_mounts returns a list sorted by mount path, with no
\* mount path twice and no entry of an excluded type, and the entry kept for
\* a mount path is the one of the first source line that names the path.
C16_Mounts_AsStated ==
    (call.fn = "list_mounts" /\ ~call.raised) =>
        LET lines == call.args.lines
            res   == call.result
        IN  /\ SortedUniqueNoPseudo(res)
            /\ \A e \in 1..Len(res) :
                 \E i \in 1..Len(lines) :
                     /\ IsMountLine(lines, i)
                     /\ FieldsOf(lines, i)[2] = res[e][1]
                     /\ FieldsOf(lines, i)[3] = res[e][2]
                     /\ \A j \in 1..(i - 1) :
                            IsMountLine(lines, j) =>
                                FieldsOf(lines, j)[2] # res[e][1]

\* C16 amended: list_mounts returns a list sorted by mount path, with no
\* mount path twice and no entry of an excluded type; lines of an excluded
\* type are dropped first, and the entry kept for a mount path is the one of
\* the first remaining line that names the path.
C16_Mounts ==
    (call.fn = "list_mounts" /\ ~call.raised) =>
        LET lines == call.args.lines
            res   == call.result
        IN  /\ SortedUniqueNoPseudo(res)
            /\ \A e \in 1..Len(res) :
                 \E i \in 1..Len(lines) :
                     /\ IsKeptType(lines, i)
                     /\ FieldsOf(lines, i)[2] = res[e][1]
                     /\ FieldsOf(lines, i)[3] = res[e][2]
                     /\ \A j \in 1..(i - 1) :
                            IsKeptType(lines, j) =>
                                FieldsOf(lines, j)[2] # res[e][1]
            /\ \A i \in 1..Len(lines) :
                 IsKeptType(lines, i) =>
                     \E e \in 1..Len(res) : res[e][1] = FieldsOf(lines, i)[2]

\* C16 witness: a mount table given out of order, with /mnt/usb on two lines
\* of different types and a pseudo filesystem in between
C16_Witness ==
    /\ call.fn = "list_mounts"
    /\ ~call.raised
    /\ call.args.lines = <<"/dev/sdb1 /mnt/usb ext4 rw 0 0",
                           "/dev/sda1 /mnt/usb vfat rw 0 0",
                           "/dev/root / ext4 rw 0 0">>
    /\ call.result = << <<"/", "ext4">>, <<"/mnt/usb", "ext4">> >>

\* the k smallest names of the set names, in ascending order
SmallestNames(names, k) ==
    SelectSeq(NameOrder,
              LAMBDA n : /\ n \in names
                         /\ Cardinality({m \in names :
                                \E i, j \in 1..Len(NameOrder) :
                                    /\ NameOrder[i] = m
                                    /\ NameOrder[j] = n
                                    /\ i < j}) < k)

\* the first k elements of seq
FirstOf(seq, k) == [i \in 1..(IF Len(seq) < k THEN Len(seq) ELSE k) |-> seq[i]]

\* a process id in its column: right-justified in five columns after two
\* blanks
PidColumn(pid) ==
    SubSeq("       ", 1, IF Len(pid) < 5 THEN 7 - Len(pid) ELSE 2) \o pid \o " "

\* a mount path in its column: its first ten characters after two blanks
MountColumn(mount) ==
    "  " \o SubSeq(mount, 1, IF Len(mount) < 10 THEN Len(mount) ELSE 10)

\* how each line of the panel of metrics m has to begin, section by section
PanelLayout(m, title) ==
    << title >>
    \o (IF m.cpu_pcts = <<>> THEN << "CPU  N/A" >>
        ELSE << "CPU  " >>
             \o [i \in 1..(IF Len(m.cpu_pcts) - 1 < 8 THEN Len(m.cpu_pcts) - 1 ELSE 8) |->
                    m.cpu_pcts[i + 1][1]])
    \o << "MEM  ", "SWAP ", "TEMP ", "LOAD ", "UPTIME " >>
    \o << "NET" >>
    \o [i \in 1..Len(SmallestNames(DOMAIN m.net_rates, 5)) |->
           "  " \o SmallestNames(DOMAIN m.net_rates, 5)[i] \o " "]
    \o << "DISK USAGE" >>
    \o [i \in 1..Len(FirstOf(m.disk_usage, 4)) |-> MountColumn(m.disk_usage[i][1])]
    \o << "DISK IO" >>
    \o [i \in 1..Len(SmallestNames(DOMAIN m.disk_rates, 4)) |->
           "  " \o SmallestNames(DOMAIN m.disk_rates, 4)[i] \o " "]
    \o << "TOP CPU" >>
    \o [i \in 1..Len(FirstOf(m.top_cpu, 3)) |-> PidColumn(m.top_cpu[i][1])]
    \o << "TOP MEM" >>
    \o [i \in 1..Len(FirstOf(m.top_mem, 3)) |-> PidColumn(m.top_mem[i][1])]

\* line begins with prefix, as far as a line cut to width columns can
BeginsWith(line, prefix, width) ==
    SubSeq(line, 1, IF Len(line) < Len(prefix) THEN Len(line) ELSE Len(prefix))
        = SubSeq(prefix, 1, IF width < Len(prefix) THEN width ELSE Len(prefix))

RECURSIVE CountOf(_, _)
\* how often the character ch occurs in text
CountOf(text, ch) ==
    IF Len(text) = 0 THEN 0
    ELSE (IF SubSeq(text, 1, 1) = ch THEN 1 ELSE 0)
         + CountOf(SubSeq(text, 2, Len(text)), ch)

\* the line of the panel that shows the temperatures
TempLine ==
    pn.lines[1 + (IF pn.metrics.cpu_pcts = <<>> THEN 1
                  ELSE IF Len(pn.metrics.cpu_pcts) < 9 THEN Len(pn.metrics.cpu_pcts)
                  ELSE 9) + 3]

\* C12: build_panel_lines emits title, CPU aggregate, per-core lines, memory,
\* swap, temperature, load, uptime, network, disk usage, disk IO, top CPU and
\* top memory in this order, with at most 8 per-core lines, 3 temperature
\* readings, 5 interfaces and 4 devices in sorted order, 4 mounts and 3 rows
\* of each process table.
C12_SectionOrderAndCaps ==
    pn.built =>
        LET layout == PanelLayout(pn.metrics, pn.title)
        IN  /\ Len(pn.lines) = Len(layout)
            /\ \A i \in 1..Len(layout) :
                   BeginsWith(pn.lines[i], layout[i], pn.width)
            /\ CountOf(TempLine, "C") <= 3
            /\ Len(TempLine) < pn.width =>
                   CountOf(TempLine, "C") =
                       (IF Len(pn.metrics.temps) < 3 THEN Len(pn.metrics.temps) ELSE 3)

\* C12 witness: a panel wide enough to show its lines whole, of a host with
\* more of everything than the caps let through
C12_Witness ==
    /\ pn.built
    /\ pn.width >= 60
    /\ Len(pn.metrics.cpu_pcts) > 9
    /\ Len(pn.metrics.temps) > 3
    /\ Cardinality(DOMAIN pn.metrics.net_rates) > 5
    /\ Cardinality(DOMAIN pn.metrics.disk_rates) > 4
    /\ Len(pn.metrics.disk_usage) > 4
    /\ Len(pn.metrics.top_cpu) > 3
    /\ Len(pn.metrics.top_mem) > 3
    /\ Len(pn.lines) = 39

\* text is ch repeated: every character of text is ch
AllOf(text, ch) == \A i \in 1..Len(text) : SubSeq(text, i, i) = ch

\* value clamped to [0, 100]
Clamped(value) ==
    IF value.n < 0 THEN [n |-> 0, d |-> 1]
    ELSE IF value.n > 100 * value.d THEN [n |-> 100, d |-> 1]
    ELSE value

\* f is round(x * w / 100): the integer nearest to it, the even one of the
\* two when it lies half way between them
IsRounded(f, x, w) ==
    LET twice == 2 * (x.n * w - 100 * x.d * f)
        half  == 100 * x.d
    IN  /\ twice <= half
        /\ 0 - twice <= half
        /\ (twice = half \/ 0 - twice = half) => f % 2 = 0

\* C13: draw_bar(value, w) is '[', round(clamped value / 100 * w) cells '#',
\* then cells '-', then ']', with exactly w cells between the brackets; a
\* value of 0 or less gives dashes only, a value of 100 or more '#' only.
C13_DrawBar ==
    call.fn = "draw_bar" =>
        LET w      == call.args.width
            value  == call.args.value
            bar    == call.result
            filled == CountOf(bar, "#")
        IN  /\ Len(bar) = w + 2
            /\ SubSeq(bar, 1, 1) = "["
            /\ SubSeq(bar, w + 2, w + 2) = "]"
            /\ AllOf(SubSeq(bar, 2, 1 + filled), "#")
            /\ AllOf(SubSeq(bar, 2 + filled, w + 1), "-")
            /\ IsRounded(filled, Clamped(value), w)
            /\ value.n <= 0 => filled = 0
            /\ value.n >= 100 * value.d => filled = w

\* C13 witness: a bar of 8 cells for 150.0, all filled
C13_Witness ==
    /\ call.fn = "draw_bar"
    /\ call.args = [value |-> [n |-> 150, d |-> 1], width |-> 8]
    /\ call.result = "[########]"

\* |num|
Magnitude(num) == [n |-> IF num.n < 0 THEN 0 - num.n ELSE num.n, d |-> num.d]

\* how often a number below 1024^4 has to be divided by 1024 until its
\* magnitude is below 1024
Divisions(num) ==
    LET a == Magnitude(num)
    IN  IF a.n < 1024 * a.d THEN 0
        ELSE IF a.n \div 1024 < 1024 * a.d THEN 1
        ELSE IF (a.n \div 1024) \div 1024 < 1024 * a.d THEN 2
        ELSE 3

\* num divided k times by 1024, for a num whose denominator divides 4
DividedBy1024(num, k) ==
    CASE k = 0 -> num
      [] k = 1 -> Rat(num.n, num.d * 1024)
      [] k = 2 -> Rat(num.n, num.d * 1048576)
      [] k = 3 -> Rat(num.n, num.d * 268435456 * 4)

\* C14: fmt_bytes shows a number with one decimal place in the first unit of
\* B, KB, MB, GB, TB at which its magnitude is below 1024, negative numbers
\* included: 1023 is "1023.0B", 1024 is "1.0KB", 1048576 is "1.0MB".
C14_FmtBytes ==
    call.fn = "fmt_bytes" =>
        LET num == call.args.num
            k   == Divisions(num)
        IN  /\ call.result = Fmt1(DividedBy1024(num, k)) \o Units[k + 1]
            /\ num = [n |-> 1023, d |-> 1] => call.result = "1023.0B"
            /\ num = [n |-> 1024, d |-> 1] => call.result = "1.0KB"
            /\ num = [n |-> 1048576, d |-> 1] => call.result = "1.0MB"

\* n in two digits at least
TwoDigits(n) == SubSeq("0", 1, IF n < 10 THEN 1 ELSE 0) \o ToString(n)

\* C15: fmt_duration splits the whole seconds into days, hours, minutes and
\* seconds; with days it shows days, hours and minutes, without days hours,
\* minutes and seconds: 3661 is "01h 01m 01s", 90000 is "1d 01h 00m".
C15_FmtDuration ==
    call.fn = "fmt_duration" =>
        LET a == call.args
        IN  /\ a.days > 0 =>
                 call.result = ToString(a.days) \o "d " \o TwoDigits(a.hours)
                               \o "h " \o TwoDigits(a.minutes) \o "m"
            /\ a.days = 0 =>
                 call.result = TwoDigits(a.hours) \o "h " \o TwoDigits(a.minutes)
                               \o "m " \o TwoDigits(a.seconds) \o "s"
            /\ a.hundredths \div 100 = 3661 => call.result = "01h 01m 01s"
            /\ a.hundredths \div 100 = 90000 => call.result = "1d 01h 00m"

\* C15 witness: 90000 seconds and a fraction, a day and an hour
C15_Witness ==
    /\ call.fn = "fmt_duration"
    /\ call.args.hundredths = 9000099
    /\ call.result = "1d 01h 00m"

\* kilobyte field name of meminfo in bytes, 0 when the field is absent
FieldBytes(meminfo, name) ==
    IF name \in DOMAIN meminfo THEN meminfo[name] * 1024 ELSE 0

\* a minus b, and 0 when that is negative
MinusOrZero(a, b) == IF a > b THEN a - b ELSE 0

\* the meminfo of the snapshot the call was given
GivenMeminfo ==
    IF "meminfo" \in DOMAIN call.args.raw THEN call.args.raw["meminfo"] ELSE <<>>

\* C17: compute_metrics reports memory used = max(total - available, 0) and
\* swap used = max(total - free, 0) in bytes, available being the
\* available-memory field or, when it is absent, the free-memory field; both
\* are never negative.
C17_MemoryUsed ==
    call.fn = "compute_metrics" =>
        LET mem   == GivenMeminfo
            avail == IF "MemAvailable" \in DOMAIN mem
                     THEN FieldBytes(mem, "MemAvailable")
                     ELSE FieldBytes(mem, "MemFree")
        IN  /\ call.result.mem_total = FieldBytes(mem, "MemTotal")
            /\ call.result.mem_used =
                   MinusOrZero(FieldBytes(mem, "MemTotal"), avail)
            /\ call.result.swap_total = FieldBytes(mem, "SwapTotal")
            /\ call.result.swap_used =
                   MinusOrZero(FieldBytes(mem, "SwapTotal"), FieldBytes(mem, "SwapFree"))
            /\ call.result.mem_used >= 0
            /\ call.result.swap_used >= 0

\* C17 witness: a snapshot without the available-memory field: the free
\* memory, 300 kB of 1000 kB, is taken for it, and no swap is in use
C17_Witness ==
    /\ call.fn = "compute_metrics"
    /\ DOMAIN GivenMeminfo = {"MemTotal", "MemFree", "SwapTotal", "SwapFree"}
    /\ GivenMeminfo["MemFree"] = 300
    /\ call.result.mem_used = 700 * 1024
    /\ call.result.swap_used = 0

\* the fields of a Metrics value
MetricsFields ==
    {"cpu_pcts", "mem_total", "mem_used", "swap_total", "swap_used", "loadavg",
     "uptime", "temps", "net_rates", "disk_rates", "disk_usage", "top_cpu",
     "top_mem"}

\* C18: a Metrics value returned by compute_metrics has all of its thirteen
\* fields, for every raw snapshot, one with missing keys included, and every
\* previous state; a missing input gives a zero or empty value.
C18_MetricsFullyDefined ==
    call.fn = "compute_metrics" =>
        LET raw == call.args.raw
            m   == call.result
        IN  /\ DOMAIN m = MetricsFields
            /\ "cpu_lines" \notin DOMAIN raw => m.cpu_pcts = <<>>
            /\ "meminfo" \notin DOMAIN raw =>
                   /\ m.mem_total = 0
                   /\ m.mem_used = 0
                   /\ m.swap_total = 0
                   /\ m.swap_used = 0
            /\ "loadavg" \notin DOMAIN raw => m.loadavg = <<"0.00", "0.00", "0.00">>
            /\ "uptime" \notin DOMAIN raw => m.uptime = 0
            /\ "temps" \notin DOMAIN raw => m.temps = <<>>
            /\ "net_bytes" \notin DOMAIN raw => m.net_rates = <<>>
            /\ "diskstats" \notin DOMAIN raw => m.disk_rates = <<>>
            /\ ("disk_usage" \notin DOMAIN raw /\ "mounts" \notin DOMAIN raw) =>
                   m.disk_usage = <<>>
            /\ "top_cpu" \notin DOMAIN raw => m.top_cpu = <<>>
            /\ "top_mem" \notin DOMAIN raw => m.top_mem = <<>>

\* C18 witness: a snapshot that holds nothing but the uptime, computed
\* against a previous state that holds counters
C18_Witness ==
    /\ call.fn = "compute_metrics"
    /\ DOMAIN call.args.raw = {"uptime"}
    /\ call.args.prev # <<>>
    /\ call.args.prev["net_bytes"] # <<>>
    /\ call.result.uptime > 0
    /\ call.result.loadavg = <<"0.00", "0.00", "0.00">>

\* C19: the CPU usage computation never divides by zero and never returns a
\* negative percentage, for every pair of previous and current counter
\* vectors, those produced by a first sample or a counter reset included.
C19_CpuUsageNotNegative ==
    cu.done => (cu.usage.d > 0 /\ cu.usage.n >= 0)

\* C20: in every polling cycle the local sampler is invoked exactly once and
\* the Remote Bridge exactly once, whatever the outcome of the cycle or of
\* earlier cycles: neither is called a second time within a cycle, and a
\* cycle that has ended has called both.
C20_OneCallPerCycle ==
    /\ dash.local_calls <= 1
    /\ dash.remote_calls <= 1
    /\ (Painted(dash) \/ Ended(dash)) =>
           (dash.local_calls = 1 /\ dash.remote_calls = 1)

\* C21: in a cycle whose column width is below 40 the remote panel is not
\* drawn and the bottom row of the painted frame shows the hint line "Widen
\* terminal for remote panel"; in a cycle whose column width is 40 or more
\* both panels are drawn and no hint is shown.
C21_NarrowHint ==
    Painted(dash) =>
        IF col_width(dash.term[2]) < MinColWidth
        THEN /\ dash.remote_lines = <<>>
             /\ dash.bottom = HintLine
        ELSE /\ dash.local_lines # <<>>
             /\ dash.remote_lines # <<>>
             /\ dash.bottom = "Updated: " \o strftime(dash.now)

\* the rate tables of m name every interface and device of raw whose table
\* the previous sample prev holds: m was not computed as a first sample
RatesPresent(raw, prev, m) ==
    /\ prev["net_bytes"] # <<>> =>
           DOMAIN m.net_rates = DOMAIN Get(raw, "net_bytes", <<>>)
    /\ prev["diskstats"] # <<>> =>
           DOMAIN m.disk_rates = DOMAIN Get(raw, "diskstats", <<>>)

\* C22: a cycle in which the remote bridge fails leaves the stored remote
\* previous state (counters and timestamp) unchanged, and so does every step
\* of the loop outside the remote poll; consequently a successful remote
\* cycle computes its rates against the state the last successful remote
\* cycle stored, over the time elapsed since that cycle's timestamp, and not
\* as a first sample.
C22_FailedCycleKeepsRemoteState ==
    [][ /\ (dash.pc = "remote" /\ ~RemoteComputed(dash')) =>
               dash'.prev_remote = dash.prev_remote
        /\ dash.pc # "remote" => dash'.prev_remote = dash.prev_remote
        /\ (dash.pc = "remote" /\ RemoteComputed(dash')) =>
               /\ dash'.prev_remote_in = dash.prev_remote
               /\ dash'.prev_remote =
                      previous_state(dash'.remote_raw.v, dash'.now)
               /\ dash.prev_remote # <<>> =>
                      /\ RatesAsClaimed(dash'.remote_raw.v, dash.prev_remote,
                                        dash'.now, dash'.remote_metrics.v)
                      /\ RatesPresent(dash'.remote_raw.v, dash.prev_remote,
                                      dash'.remote_metrics.v)
      ]_dash

\* C22 witness: a successful remote cycle right after a cycle whose remote
\* call failed (the local state it was given carries the failed cycle's
\* timestamp, the remote state an earlier one), with rates over the time
\* since the earlier cycle
C22_Witness ==
    /\ Painted(dash)
    /\ RemoteComputed(dash)
    /\ dash.prev_remote_in # <<>>
    /\ dash.prev_local_in # <<>>
    /\ dash.prev_local_in["time"] = dash.now
    /\ dash.prev_remote_in["time"] < dash.now
    /\ dash.prev_remote_in["net_bytes"] # <<>>
    /\ DOMAIN dash.remote_metrics.v.net_rates # {}

\* the labels of a sequence of cpu lines, in order
Labels(cpu_lines) == [i \in 1..Len(cpu_lines) |-> cpu_lines[i][1]]

\* m.cpu_pcts has one entry per cpu line of raw, in order and with its label,
\* and the percentage of a line whose label the previous sample prev holds
\* is cpu_usage of that line's previous and current counters
CpuPctsByLabel(raw, prev, m) ==
    LET cur == Get(raw, "cpu_lines", <<>>)
        old == Get(prev, "cpu_lines", <<>>)
    IN  /\ Len(m.cpu_pcts) = Len(cur)
        /\ \A i \in 1..Len(cur) :
               /\ m.cpu_pcts[i][1] = cur[i][1]
               /\ \A j \in 1..Len(old) :
                      old[j][1] = cur[i][1] =>
                          RatEq(m.cpu_pcts[i][2],
                                cpu_usage(old[j][2], cur[i][2]))

\* C23: in every cycle, with or without a previous state, cpu_pcts has
\* exactly one entry per cpu line of the current snapshot, in the same order
\* and with the current line's label, and each percentage is computed from
\* the previous sample's counters of the line with the same label, also when
\* the number or order of cpu lines differs between the two snapshots.
C23_CpuPctsPerLine ==
    /\ LocalComputed(dash) =>
           CpuPctsByLabel(dash.local_raw, dash.prev_local_in,
                          dash.local_metrics)
    /\ RemoteComputed(dash) =>
           CpuPctsByLabel(dash.remote_raw.v, dash.prev_remote_in,
                          dash.remote_metrics.v)

\* the cycle of s treated the remote call as successful: it computed remote
\* metrics, stored the call's counters and the cycle's timestamp, and, once
\* painted on a terminal wide enough for two columns, shows the remote
\* metrics panel
TreatedAsSuccess(s) ==
    /\ RemoteComputed(s)
    /\ s.remote_raw.t = "dict"
    /\ s.prev_remote = previous_state(s.remote_raw.v, s.now)
    /\ (Painted(s) /\ col_width(s.term[2]) >= MinColWidth) =>
           s.remote_lines = build_panel_lines(s.remote_metrics.v, "REMOTE",
                                              col_width(s.term[2]))

\* C24: exactly one component of the pair ssh_remote_raw returns is null, and
\* whenever the returned error is null the cycle computes remote metrics,
\* updates the remote previous state and, on a wide enough terminal, draws
\* the remote metrics panel rather than an "Error: ..." line.
C24_SuccessIffNoError ==
    dash.ssh_call = "returned" =>
        /\ (dash.remote_raw.t = "none") # (dash.remote_err.t = "none")
        /\ dash.remote_err.t = "none" => TreatedAsSuccess(dash)

\* the minute of the day a schedule item "HH:MM" names
MinuteOfDay(item) ==
    DigitsValue(SubSeq(item, 1, 2)) * 60 + DigitsValue(SubSeq(item, 4, 5))

\* the scheduled times of the given day
SlotsOfDay(schedule, day) ==
    { day * MinutesPerDay + MinuteOfDay(schedule[i]) : i \in 1..Len(schedule) }

\* the scheduled times of the day of now that are at or before now
SlotsDueToday(schedule, now) ==
    { t \in SlotsOfDay(schedule, now \div MinutesPerDay) : t <= now }

\* a scheduled time (of any day) later than t has been reached at now
SlotReachedSince(schedule, t, now) ==
    \E day \in 0..(now \div MinutesPerDay) :
        \E slot \in SlotsOfDay(schedule, day) : t < slot /\ slot <= now

\* the world-status loop has just made its unforced get_news call
NewsPolled == wd.pc = "key"

\* the cache file that call read holds a result get_news stored
ReadStored ==
    /\ TruthyVal(wd.cache_in)
    /\ wd.last_fetch_dt.t = "datetime"

\* schedule_due, when asked, said due only with an empty schedule or with
\* a scheduled time of the current day at or before now and the last fetch
\* absent or earlier than the latest such time
DueOnlyWhenSlotOpen ==
    (NewsPolled /\ wd.due = "due") =>
        \/ wd.NEWS_SCHEDULE = <<>>
        \/ /\ SlotsDueToday(wd.NEWS_SCHEDULE, wd.now) # {}
           /\ \/ wd.last_fetch_dt.t = "none"
              \/ \E slot \in SlotsDueToday(wd.NEWS_SCHEDULE, wd.now) :
                     /\ wd.last_fetch_dt.v < slot
                     /\ \A other \in SlotsDueToday(wd.NEWS_SCHEDULE, wd.now) :
                            other <= slot

\* with a stored result fetched at t, the unforced call returns it without
\* fetching unless a scheduled time later than t has been reached
CachedUntilNextSlot ==
    (NewsPolled /\ ReadStored
       /\ ~SlotReachedSince(wd.NEWS_SCHEDULE, wd.last_fetch_dt.v, wd.now)) =>
        /\ ~wd.fetched
        /\ wd.news = wd.cache_in
        /\ wd.cache = wd.cache_in

\* a fetch that fails leaves the cache file as it was
FailureStoresNothing ==
    (NewsPolled /\ wd.fetched /\ ~wd.stored) => wd.cache = wd.cache_in

\* C25 as stated: news is fetched at most once per scheduled slot:
\* schedule_due is true only with an empty schedule or an open slot; a
\* stored result is returned without fetching until a scheduled time later
\* than its fetch time has been reached; a fetch that fails stores nothing
\* and is attempted again on the next loop iteration.
C25_NewsSchedule_AsStated ==
    /\ DueOnlyWhenSlotOpen
    /\ CachedUntilNextSlot
    /\ FailureStoresNothing
    /\ (NewsPolled /\ wd.failed_before) => wd.fetched

\* C25 amended: as stated, except that a failed fetch is attempted again on
\* the next loop iteration exactly when no result is cached there or
\* schedule_due still says due at that iteration's time; a failed forced
\* refresh, or a failed fetch whose slot belongs to the day before, is not.
C25_NewsSchedule ==
    /\ DueOnlyWhenSlotOpen
    /\ CachedUntilNextSlot
    /\ FailureStoresNothing
    /\ (NewsPolled /\ wd.failed_before) =>
           (wd.fetched <=> (~TruthyVal(wd.cache_in) \/ wd.due = "due"))

\* C25 witness: an unforced call on the day after the start that read a
\* result stored by get_news, found a later slot reached and fetched again,
\* after a failed fetch in the iteration before
C25_Witness ==
    /\ NewsPolled
    /\ ReadStored
    /\ wd.cache_in # NewsData(240)
    /\ wd.failed_before
    /\ wd.fetched
    /\ wd.stored
    /\ wd.now >= MinutesPerDay

====
